---------------------------- MODULE Spec2Model ----------------------------
(***************************************************************************)
(* Model of the gprofiler agent:                                           *)
(*   - CommandManager        (gprofiler/command_control.py)                *)
(*   - HeartbeatClient and DynamicGProfilerManager (gprofiler/heartbeat.py)*)
(*   - cleanup_completed_processes (docs/subprocess_gc_proof.py)           *)
(*   - PerfProcess           (gprofiler/utils/perf_process.py)             *)
(*   - discovery of the perf event (gprofiler/utils/perf.py)               *)
(*   - per-runtime samplers  (gprofiler/profilers/profiler_base.py,        *)
(*                            python.py, ruby.py)                          *)
(*   - SparkController       (gprofiler/spark.py)                          *)
(*   - parse_one_collapsed   (gprofiler/utils/collapsed_format.py)         *)
(*   - the perf command line (PerfProcess._get_perf_cmd)                   *)
(*   - _create_profiler_args  (gprofiler/heartbeat.py)                     *)
(*   - selection of cgroups   (gprofiler/utils/cgroup_utils.py)            *)
(*   - _wait_for_profiles     (gprofiler/profilers/profiler_base.py)       *)
(* Each component has its own variables and its own specification; the     *)
(* variables of the other components stay at their initial values.         *)
(***************************************************************************)
EXTENDS Integers, Sequences, FiniteSets, TLC

\* Python's None
None == "None"

(***************************************************************************)
(* CommandManager state (command_control.py)                               *)
(***************************************************************************)
VARIABLES
    adhoc_queue,        \* CommandManager.adhoc_queue: deque of commands
    continuous_queue,   \* CommandManager.continuous_queue: deque of commands
    queue_lock,         \* CommandManager.queue_lock: None or the holding thread
    cm_pc,              \* per thread: position inside enqueue_command / get_next_command
    cm_cmd,             \* per thread: the command being enqueued (local cmd)
    cm_ret,             \* per thread: value returned by the thread's last call
    adhoc_arrivals,     \* number of ad-hoc commands that reached the lock so far
    continuous_arrivals,\* number of continuous commands that reached the lock so far
    last_adhoc_returned,\* history: command_id of the last ad-hoc command returned
    continuous_returned,\* history: TRUE once a continuous command was returned
    adhoc_after_continuous,   \* history: an ad-hoc command was returned after a continuous one
    adhoc_order_ok,           \* history: ad-hoc commands were returned in arrival order so far
    continuous_preempted_adhoc\* history: a continuous command was returned while an ad-hoc one was pending

varsCM == <<adhoc_queue, continuous_queue, queue_lock, cm_pc, cm_cmd, cm_ret,
            adhoc_arrivals, continuous_arrivals, last_adhoc_returned,
            continuous_returned, adhoc_after_continuous, adhoc_order_ok,
            continuous_preempted_adhoc>>

\* The history variables, written only when get_next_command returns.
histCM == <<last_adhoc_returned, continuous_returned, adhoc_after_continuous,
            adhoc_order_ok, continuous_preempted_adhoc>>

ADHOC_QUEUE_MAX_SIZE == 10
CONTINUOUS_QUEUE_MAX_SIZE == 1

\* Bounds of the command stream: numbers of enqueue_command calls per kind.
MaxAdhoc == 11
MaxContinuous == 2

\* The threads that call into the CommandManager concurrently.
CMThreads == {"t1", "t2"}

\* ProfilingCommand: ad-hoc and continuous commands are numbered, per kind, in
\* the order in which their enqueue_command call obtained queue_lock (arrival
\* order); command_type, profiling_command and timestamp are not read by the
\* CommandManager.
ProfilingCommand(id, cont) == [command_id |-> id, is_continuous |-> cont]

\* No command held in the local variable cmd.
NoCommand == [command_id |-> 0, is_continuous |-> FALSE]

\* What a call returned: None, False (enqueue dropped the command) or a command.
RetNone == [ret |-> "None"]
RetFalse == [ret |-> "False"]
RetCmd(cmd) == [ret |-> "cmd", cmd |-> cmd]

InitCM ==
    /\ adhoc_queue = <<>>
    /\ continuous_queue = <<>>
    /\ queue_lock = None
    /\ cm_pc = [t \in CMThreads |-> "idle"]
    /\ cm_cmd = [t \in CMThreads |-> NoCommand]
    /\ cm_ret = [t \in CMThreads |-> RetNone]
    /\ adhoc_arrivals = 0
    /\ continuous_arrivals = 0
    /\ last_adhoc_returned = 0
    /\ continuous_returned = FALSE
    /\ adhoc_after_continuous = FALSE
    /\ adhoc_order_ok = TRUE
    /\ continuous_preempted_adhoc = FALSE

\* `with self.queue_lock:` -- entry
LockFree == queue_lock = None

\* Mutant of QueueFull: an off-by-one full check (> instead of >=).
MutQueueFullOffByOne(q, max) == Len(q) > max

\* len(queue) >= MAX
QueueFull(q, max) == Len(q) >= max

\* enqueue_command, lines 59-81: build cmd, then take queue_lock.
EnqueueAcquire(t, cont) ==
    /\ cm_pc[t] = "idle"
    /\ LockFree
    /\ IF cont THEN continuous_arrivals < MaxContinuous ELSE adhoc_arrivals < MaxAdhoc
    /\ queue_lock' = t
    /\ adhoc_arrivals' = IF cont THEN adhoc_arrivals ELSE adhoc_arrivals + 1
    /\ continuous_arrivals' = IF cont THEN continuous_arrivals + 1 ELSE continuous_arrivals
    /\ cm_cmd' = [cm_cmd EXCEPT ![t] =
                    ProfilingCommand(IF cont THEN continuous_arrivals + 1
                                             ELSE adhoc_arrivals + 1, cont)]
    /\ cm_pc' = [cm_pc EXCEPT ![t] = "enq_check"]
    /\ cm_ret' = [cm_ret EXCEPT ![t] = RetNone]
    /\ UNCHANGED <<adhoc_queue, continuous_queue, histCM>>

\* Mutant of EnqueueCheck: a full queue evicts its oldest command to make room
\* for the incoming one instead of dropping the incoming one.
MutEnqueueCheckEvictsOldest(t) ==
    /\ cm_pc[t] = "enq_check"
    /\ LET cmd == cm_cmd[t]
       IN IF cmd.is_continuous
          THEN /\ continuous_queue' =
                    IF QueueFull(continuous_queue, CONTINUOUS_QUEUE_MAX_SIZE)
                    THEN Tail(continuous_queue) ELSE continuous_queue
               /\ UNCHANGED adhoc_queue
          ELSE /\ adhoc_queue' =
                    IF QueueFull(adhoc_queue, ADHOC_QUEUE_MAX_SIZE)
                    THEN Tail(adhoc_queue) ELSE adhoc_queue
               /\ UNCHANGED continuous_queue
    /\ cm_pc' = [cm_pc EXCEPT ![t] = "enq_append"]
    /\ UNCHANGED <<cm_ret, queue_lock, cm_cmd, adhoc_arrivals, continuous_arrivals, histCM>>

\* enqueue_command, lines 82-94: the full check; a full queue drops the
\* incoming command (return False) and releases the lock.
EnqueueCheck(t) ==
    /\ cm_pc[t] = "enq_check"
    /\ LET cmd == cm_cmd[t]
           full == IF cmd.is_continuous
                   THEN QueueFull(continuous_queue, CONTINUOUS_QUEUE_MAX_SIZE)
                   ELSE QueueFull(adhoc_queue, ADHOC_QUEUE_MAX_SIZE)
       IN IF full
          THEN /\ cm_ret' = [cm_ret EXCEPT ![t] = RetFalse]
               /\ cm_pc' = [cm_pc EXCEPT ![t] = "idle"]
               /\ queue_lock' = IF queue_lock = t THEN None ELSE queue_lock
          ELSE /\ cm_pc' = [cm_pc EXCEPT ![t] = "enq_append"]
               /\ UNCHANGED <<cm_ret, queue_lock>>
    /\ UNCHANGED cm_cmd
    /\ UNCHANGED <<adhoc_queue, continuous_queue, adhoc_arrivals, continuous_arrivals,
                   histCM>>

\* enqueue_command, lines 88 / 96 and 99: append, release the lock, return cmd.
EnqueueAppend(t) ==
    /\ cm_pc[t] = "enq_append"
    /\ LET cmd == cm_cmd[t]
       IN /\ IF cmd.is_continuous
             THEN /\ continuous_queue' = Append(continuous_queue, cmd)
                  /\ UNCHANGED adhoc_queue
             ELSE /\ adhoc_queue' = Append(adhoc_queue, cmd)
                  /\ UNCHANGED continuous_queue
          /\ cm_ret' = [cm_ret EXCEPT ![t] = RetCmd(cmd)]
    /\ cm_pc' = [cm_pc EXCEPT ![t] = "idle"]
    /\ queue_lock' = IF queue_lock = t THEN None ELSE queue_lock
    /\ UNCHANGED <<cm_cmd, adhoc_arrivals, continuous_arrivals, histCM>>

\* get_next_command, line 112: take queue_lock.
GetAcquire(t) ==
    /\ cm_pc[t] = "idle"
    /\ LockFree
    /\ queue_lock' = t
    /\ cm_pc' = [cm_pc EXCEPT ![t] = "get_body"]
    /\ cm_ret' = [cm_ret EXCEPT ![t] = RetNone]
    /\ cm_cmd' = [cm_cmd EXCEPT ![t] = NoCommand]
    /\ UNCHANGED <<adhoc_queue, continuous_queue, adhoc_arrivals,
                   continuous_arrivals, histCM>>

\* History of what get_next_command handed out (not program state).
NoteReturned(r) ==
    IF r.ret # "cmd"
    THEN UNCHANGED histCM
    ELSE LET cmd == r.cmd IN
         IF cmd.is_continuous
    THEN /\ continuous_returned' = TRUE
         /\ continuous_preempted_adhoc' = (continuous_preempted_adhoc \/ adhoc_queue # <<>>)
         /\ UNCHANGED <<last_adhoc_returned, adhoc_after_continuous, adhoc_order_ok>>
    ELSE /\ last_adhoc_returned' = cmd.command_id
         /\ adhoc_order_ok' = (adhoc_order_ok /\ cmd.command_id > last_adhoc_returned)
         /\ adhoc_after_continuous' = (adhoc_after_continuous \/ continuous_returned)
         /\ UNCHANGED <<continuous_returned, continuous_preempted_adhoc>>

\* Mutant of GetBody: the two priorities swapped (continuous queue first).
MutGetBodyContinuousFirst(t) ==
    /\ cm_pc[t] = "get_body"
    /\ IF continuous_queue # <<>>
       THEN /\ cm_ret' = [cm_ret EXCEPT ![t] = RetCmd(Head(continuous_queue))]
            /\ continuous_queue' = Tail(continuous_queue)
            /\ NoteReturned(RetCmd(Head(continuous_queue)))
            /\ UNCHANGED adhoc_queue
       ELSE IF adhoc_queue # <<>>
       THEN /\ cm_ret' = [cm_ret EXCEPT ![t] = RetCmd(Head(adhoc_queue))]
            /\ adhoc_queue' = Tail(adhoc_queue)
            /\ NoteReturned(RetCmd(Head(adhoc_queue)))
            /\ UNCHANGED continuous_queue
       ELSE /\ cm_ret' = [cm_ret EXCEPT ![t] = RetNone]
            /\ NoteReturned(RetNone)
            /\ UNCHANGED <<adhoc_queue, continuous_queue>>
    /\ cm_pc' = [cm_pc EXCEPT ![t] = "idle"]
    /\ queue_lock' = IF queue_lock = t THEN None ELSE queue_lock
    /\ UNCHANGED <<cm_cmd, adhoc_arrivals, continuous_arrivals>>

\* Mutant of GetBody: the command is returned but left in its queue.
MutGetBodyPeeksOnly(t) ==
    /\ cm_pc[t] = "get_body"
    /\ IF adhoc_queue # <<>>
       THEN /\ cm_ret' = [cm_ret EXCEPT ![t] = RetCmd(Head(adhoc_queue))]
            /\ NoteReturned(RetCmd(Head(adhoc_queue)))
       ELSE IF continuous_queue # <<>>
       THEN /\ cm_ret' = [cm_ret EXCEPT ![t] = RetCmd(Head(continuous_queue))]
            /\ NoteReturned(RetCmd(Head(continuous_queue)))
       ELSE /\ cm_ret' = [cm_ret EXCEPT ![t] = RetNone]
            /\ NoteReturned(RetNone)
    /\ cm_pc' = [cm_pc EXCEPT ![t] = "idle"]
    /\ queue_lock' = IF queue_lock = t THEN None ELSE queue_lock
    /\ UNCHANGED <<adhoc_queue, continuous_queue, cm_cmd, adhoc_arrivals,
                   continuous_arrivals>>

\* get_next_command, lines 113-126: ad-hoc first, then continuous, else None.
GetBody(t) ==
    /\ cm_pc[t] = "get_body"
    /\ IF adhoc_queue # <<>>
       THEN /\ cm_ret' = [cm_ret EXCEPT ![t] = RetCmd(Head(adhoc_queue))]
            /\ adhoc_queue' = Tail(adhoc_queue)
            /\ NoteReturned(RetCmd(Head(adhoc_queue)))
            /\ UNCHANGED continuous_queue
       ELSE IF continuous_queue # <<>>
       THEN /\ cm_ret' = [cm_ret EXCEPT ![t] = RetCmd(Head(continuous_queue))]
            /\ continuous_queue' = Tail(continuous_queue)
            /\ NoteReturned(RetCmd(Head(continuous_queue)))
            /\ UNCHANGED adhoc_queue
       ELSE /\ cm_ret' = [cm_ret EXCEPT ![t] = RetNone]
            /\ NoteReturned(RetNone)
            /\ UNCHANGED <<adhoc_queue, continuous_queue>>
    /\ cm_pc' = [cm_pc EXCEPT ![t] = "idle"]
    /\ queue_lock' = IF queue_lock = t THEN None ELSE queue_lock
    /\ UNCHANGED <<cm_cmd, adhoc_arrivals, continuous_arrivals>>

\* clear_queues, lines 137-145: the whole body runs under the lock.
ClearQueues(t) ==
    /\ cm_pc[t] = "idle"
    /\ LockFree
    /\ adhoc_queue' = <<>>
    /\ continuous_queue' = <<>>
    /\ cm_ret' = [cm_ret EXCEPT ![t] = RetNone]
    /\ cm_cmd' = [cm_cmd EXCEPT ![t] = NoCommand]
    /\ UNCHANGED <<queue_lock, cm_pc, adhoc_arrivals, continuous_arrivals, histCM>>

NextCM ==
    \E t \in CMThreads :
        \/ \E cont \in BOOLEAN : EnqueueAcquire(t, cont)
        \/ EnqueueCheck(t)
        \/ EnqueueAppend(t)
        \/ GetAcquire(t)
        \/ GetBody(t)
        \/ ClearQueues(t)

(***************************************************************************)
(* HeartbeatClient and DynamicGProfilerManager state (heartbeat.py)        *)
(***************************************************************************)
VARIABLES
    executed_command_ids, \* HeartbeatClient.executed_command_ids
    last_command_id,      \* HeartbeatClient.last_command_id (NoId for None)
    current_gprofiler,    \* DynamicGProfilerManager.current_gprofiler (NoProfiler for None)
    current_thread,       \* DynamicGProfilerManager.current_thread (NoProfiler for None)
    stop_event,           \* DynamicGProfilerManager.stop_event is set
    pc,                   \* position of the heartbeat thread ("hb") and of the thread calling stop() ("main")
    hb_resp,              \* the command_response the heartbeat thread is handling
    hb_outcome,           \* what the current tick did with the response
    ticks,                \* number of heartbeats sent
    n_profilers,          \* number of GProfiler instances created
    run_pc,               \* per GProfiler instance: position of its _run_profiler thread
    prof_stop_set,        \* GProfiler instances whose stop event is set
    exec_count,           \* history: per command_id, times the command was acted on
    start_count,          \* history: per command_id, times _start_new_profiler was invoked
    evict_count,          \* history: per command_id, times it was evicted from the set
    tick_sent             \* history: the statuses of the command_completion reports sent in this tick

varsHB == <<executed_command_ids, last_command_id, current_gprofiler, current_thread,
            stop_event, pc, hb_resp, hb_outcome, ticks, n_profilers, run_pc,
            prof_stop_set, exec_count, start_count, evict_count, tick_sent>>

\* Only the history variables of the heartbeat model.
histHB == <<exec_count, start_count, evict_count, tick_sent>>

\* HeartbeatClient.max_command_history is 1000 in the program; the model scales
\* it down so that the set reaches its limit.
max_command_history == 1

\* Bounds: distinct command ids the collector hands out, heartbeats sent.
NumCommandIds == 2
MaxTicks == 3

CommandIds == 1..NumCommandIds
NoId == 0
NoProfiler == 0
Profilers == 1..MaxTicks
CommandTypes == {"start", "stop", "restart"}

\* send_heartbeat returned None (transport error, non-200, or no command).
NoResponse == [command_id |-> NoId, command_type |-> "none", host_targeted |-> TRUE]

\* The responses that carry a profiling_command. host_targeted: target_hostnames
\* is empty or contains this host.
CommandResponses ==
    {r \in [command_id : CommandIds, command_type : CommandTypes, host_targeted : BOOLEAN] :
        r.command_type # "start" => r.host_targeted}

InitHB ==
    /\ executed_command_ids = {}
    /\ last_command_id = NoId
    /\ current_gprofiler = NoProfiler
    /\ current_thread = NoProfiler
    /\ stop_event = FALSE
    /\ pc = [th \in {"hb", "main"} |-> IF th = "hb" THEN "send" ELSE "idle"]
    /\ hb_resp = NoResponse
    /\ hb_outcome = "none"
    /\ ticks = 0
    /\ n_profilers = 0
    /\ run_pc = [g \in Profilers |-> "unborn"]
    /\ prof_stop_set = {}
    /\ exec_count = [c \in CommandIds |-> 0]
    /\ start_count = [c \in CommandIds |-> 0]
    /\ evict_count = [c \in CommandIds |-> 0]
    /\ tick_sent = <<>>

\* threading.Thread.is_alive() of the run thread of instance g
IsAlive(g) == g # NoProfiler /\ run_pc[g] \in {"running", "clearing"}

\* Mutant of CleanupOldCommandIds: keeps one entry fewer than the limit.
MutCleanupKeepsTooFew(S) ==
    IF Cardinality(S) > max_command_history
    THEN {K \in SUBSET S : Cardinality(K) = max_command_history - 1}
    ELSE {S}

\* _cleanup_old_command_ids: list(set)[-max_command_history:] keeps the last
\* max_command_history elements of the set's iteration order, which is
\* arbitrary: every subset of that size is a possible result.
CleanupOldCommandIds(S) ==
    IF Cardinality(S) > max_command_history
    THEN {K \in SUBSET S : Cardinality(K) = max_command_history}
    ELSE {S}

\* mark_command_executed: the possible values of executed_command_ids afterwards.
MarkCommandExecuted(S, id) ==
    IF Cardinality(S \cup {id}) > max_command_history
    THEN CleanupOldCommandIds(S \cup {id})
    ELSE {S \cup {id}}

\* Mutant of IsDuplicate: only the most recent command id is remembered.
MutIsDuplicateLastOnly(id) == id = last_command_id

\* start_heartbeat_loop line 245: command_id in executed_command_ids
IsDuplicate(id) == id \in executed_command_ids

\* The error_message of a command_completion: a text and what is formatted
\* into it.
NoMessage == [text |-> "None", arg |-> "None"]
ErrorMessage(text, arg) == [text |-> text, arg |-> arg]

\* send_command_completion(command_id, status, execution_time, error_message, ...)
SendCommandCompletion(id, status, error_message) ==
    tick_sent' = Append(tick_sent, [command_id |-> id, status |-> status,
                                    error_message |-> error_message])

\* Mutant of HBSend: a heartbeat without a response ends the loop.
MutHBSendFailureEndsLoop ==
    /\ pc["hb"] = "send"
    /\ IF stop_event
       THEN /\ pc' = [pc EXCEPT !["hb"] = "done"]
            /\ UNCHANGED <<hb_resp, hb_outcome, ticks, tick_sent>>
       ELSE /\ ticks < MaxTicks
            /\ ticks' = ticks + 1
            /\ hb_outcome' = "none"
            /\ tick_sent' = <<>>
            /\ \E r \in CommandResponses \cup {NoResponse} :
                 /\ hb_resp' = r
                 /\ pc' = [pc EXCEPT !["hb"] = IF r = NoResponse THEN "done" ELSE "check"]
    /\ UNCHANGED <<executed_command_ids, last_command_id, current_gprofiler,
                   current_thread, stop_event, n_profilers, run_pc, prof_stop_set,
                   exec_count, start_count, evict_count>>

\* start_heartbeat_loop lines 232-237: the loop test and send_heartbeat.
HBSend ==
    /\ pc["hb"] = "send"
    /\ IF stop_event
       THEN /\ pc' = [pc EXCEPT !["hb"] = "done"]
            /\ UNCHANGED <<hb_resp, hb_outcome, ticks, tick_sent>>
       ELSE /\ ticks < MaxTicks
            /\ ticks' = ticks + 1
            /\ hb_outcome' = "none"
            /\ tick_sent' = <<>>
            /\ \E r \in CommandResponses \cup {NoResponse} :
                 /\ hb_resp' = r
                 /\ pc' = [pc EXCEPT !["hb"] = IF r = NoResponse THEN "wait" ELSE "check"]
    /\ UNCHANGED <<executed_command_ids, last_command_id, current_gprofiler,
                   current_thread, stop_event, n_profilers, run_pc, prof_stop_set,
                   exec_count, start_count, evict_count>>

\* Mutant of HBCheck: a start command goes straight to _start_new_profiler,
\* without stopping the current profiler first.
MutHBCheckStartSkipsStop ==
    /\ pc["hb"] = "check"
    /\ IF IsDuplicate(hb_resp.command_id)
       THEN /\ pc' = [pc EXCEPT !["hb"] = "wait"]
            /\ hb_outcome' = "skipped"
            /\ UNCHANGED <<executed_command_ids, last_command_id, exec_count, evict_count>>
       ELSE /\ \E S \in MarkCommandExecuted(executed_command_ids, hb_resp.command_id) :
                 /\ executed_command_ids' = S
                 /\ evict_count' = [c \in CommandIds |->
                        IF c \in (executed_command_ids \cup {hb_resp.command_id}) \ S
                        THEN evict_count[c] + 1 ELSE evict_count[c]]
            /\ last_command_id' = hb_resp.command_id
            /\ exec_count' = [exec_count EXCEPT ![hb_resp.command_id] = @ + 1]
            /\ hb_outcome' = "accepted"
            /\ pc' = [pc EXCEPT !["hb"] =
                        IF hb_resp.command_type = "stop" THEN "stop_test"
                        ELSE IF hb_resp.command_type = "start" THEN "start_create"
                        ELSE "report"]
    /\ UNCHANGED <<current_gprofiler, current_thread, stop_event, hb_resp, ticks,
                   n_profilers, run_pc, prof_stop_set, start_count, tick_sent>>

\* start_heartbeat_loop lines 244-257: the idempotency check; a new command is
\* marked executed and becomes last_command_id, then the loop branches on its type.
HBCheck ==
    /\ pc["hb"] = "check"
    /\ IF IsDuplicate(hb_resp.command_id)
       THEN /\ pc' = [pc EXCEPT !["hb"] = "wait"]
            /\ hb_outcome' = "skipped"
            /\ UNCHANGED <<executed_command_ids, last_command_id, exec_count, evict_count>>
       ELSE /\ \E S \in MarkCommandExecuted(executed_command_ids, hb_resp.command_id) :
                 /\ executed_command_ids' = S
                 /\ evict_count' = [c \in CommandIds |->
                        IF c \in (executed_command_ids \cup {hb_resp.command_id}) \ S
                        THEN evict_count[c] + 1 ELSE evict_count[c]]
            /\ last_command_id' = hb_resp.command_id
            /\ exec_count' = [exec_count EXCEPT ![hb_resp.command_id] = @ + 1]
            /\ hb_outcome' = "accepted"
            /\ pc' = [pc EXCEPT !["hb"] =
                        IF hb_resp.command_type \in {"stop", "start"}
                        THEN "stop_test" ELSE "report"]
    /\ UNCHANGED <<current_gprofiler, current_thread, stop_event, hb_resp, ticks,
                   n_profilers, run_pc, prof_stop_set, start_count, tick_sent>>

\* Where _stop_current_profiler returns to: the heartbeat loop goes on with the
\* command, stop() of the manager is finished.
AfterStop(th) ==
    IF th = "main" THEN "done"
    ELSE IF hb_resp.command_type = "start" THEN "start_create" ELSE "report"

\* _stop_current_profiler line 312: if self.current_gprofiler
StopTest(th) ==
    /\ pc[th] = "stop_test"
    /\ pc' = [pc EXCEPT ![th] = IF current_gprofiler # NoProfiler
                                THEN "stop_call" ELSE "stop_join"]
    /\ UNCHANGED <<executed_command_ids, last_command_id, current_gprofiler,
                   current_thread, stop_event, hb_resp, hb_outcome, ticks, n_profilers,
                   run_pc, prof_stop_set, histHB>>

\* _stop_current_profiler lines 314-319: self.current_gprofiler.stop(); any
\* exception (also the AttributeError when the reference was cleared meanwhile)
\* is logged and swallowed.
StopCall(th) ==
    /\ pc[th] = "stop_call"
    /\ IF current_gprofiler = NoProfiler
       THEN UNCHANGED prof_stop_set
       ELSE \E raised_before_set \in BOOLEAN :
               prof_stop_set' = IF raised_before_set THEN prof_stop_set
                                ELSE prof_stop_set \cup {current_gprofiler}
    /\ pc' = [pc EXCEPT ![th] = "stop_cleanup"]
    /\ UNCHANGED <<executed_command_ids, last_command_id, current_gprofiler,
                   current_thread, stop_event, hb_resp, hb_outcome, ticks, n_profilers,
                   run_pc, histHB>>

\* _stop_current_profiler lines 321-328: the reap pass
\* (maybe_cleanup_subprocesses); its errors are swallowed, and so is the
\* AttributeError when the run thread cleared self.current_gprofiler meanwhile,
\* in which case no reap pass ran.
StopCleanup(th) ==
    /\ pc[th] = "stop_cleanup"
    /\ pc' = [pc EXCEPT ![th] = "stop_clear"]
    /\ UNCHANGED <<executed_command_ids, last_command_id, current_gprofiler,
                   current_thread, stop_event, hb_resp, hb_outcome, ticks, n_profilers,
                   run_pc, prof_stop_set, histHB>>

\* _stop_current_profiler line 331: self.current_gprofiler = None
StopClear(th) ==
    /\ pc[th] = "stop_clear"
    /\ current_gprofiler' = NoProfiler
    /\ pc' = [pc EXCEPT ![th] = "stop_join"]
    /\ UNCHANGED <<executed_command_ids, last_command_id, current_thread, stop_event,
                   hb_resp, hb_outcome, ticks, n_profilers, run_pc, prof_stop_set, histHB>>

\* _stop_current_profiler line 333: if self.current_thread and is_alive()
StopJoinTest(th) ==
    /\ pc[th] = "stop_join"
    /\ pc' = [pc EXCEPT ![th] = IF IsAlive(current_thread) THEN "stop_joining"
                                ELSE AfterStop(th)]
    /\ UNCHANGED <<executed_command_ids, last_command_id, current_gprofiler,
                   current_thread, stop_event, hb_resp, hb_outcome, ticks, n_profilers,
                   run_pc, prof_stop_set, histHB>>

\* _stop_current_profiler lines 336-337: join(timeout=10) returns when the
\* thread has ended or when the 10 s are over, whichever comes first; then
\* self.current_thread = None. If the other caller cleared current_thread
\* meanwhile, .join fails with AttributeError: the heartbeat loop's handler
\* (lines 306-308) waits for the next tick, stop() propagates it.
StopJoin(th) ==
    /\ pc[th] = "stop_joining"
    /\ IF current_thread = NoProfiler
       THEN /\ pc' = [pc EXCEPT ![th] = IF th = "main" THEN "done" ELSE "wait"]
            /\ UNCHANGED current_thread
       ELSE /\ current_thread' = NoProfiler
            /\ pc' = [pc EXCEPT ![th] = AfterStop(th)]
    /\ UNCHANGED <<executed_command_ids, last_command_id, current_gprofiler, stop_event,
                   hb_resp, hb_outcome, ticks, n_profilers, run_pc, prof_stop_set, histHB>>

\* _start_new_profiler lines 346-349: _create_profiler_args returns None when
\* this host is not targeted, and _create_gprofiler_instance(None) returns None;
\* creating the instance may raise, which is reported as 'failed' (lines 366-375).
StartCreate ==
    /\ pc["hb"] = "start_create"
    /\ start_count' = [start_count EXCEPT ![hb_resp.command_id] = @ + 1]
    /\ IF ~hb_resp.host_targeted
       THEN /\ current_gprofiler' = NoProfiler
            /\ pc' = [pc EXCEPT !["hb"] = "start_thread"]
            /\ UNCHANGED <<n_profilers, tick_sent>>
       ELSE \/ /\ n_profilers' = n_profilers + 1
               /\ current_gprofiler' = n_profilers + 1
               /\ pc' = [pc EXCEPT !["hb"] = "start_thread"]
               /\ UNCHANGED tick_sent
            \/ /\ SendCommandCompletion(hb_resp.command_id, "failed",
                                         ErrorMessage("str(e)", "Exception"))
               /\ pc' = [pc EXCEPT !["hb"] = "report"]
               /\ UNCHANGED <<n_profilers, current_gprofiler>>
    /\ UNCHANGED <<executed_command_ids, last_command_id, current_thread, stop_event,
                   hb_resp, hb_outcome, ticks, run_pc, prof_stop_set, exec_count,
                   evict_count>>

\* _start_new_profiler lines 352-375: the thread's arguments read
\* self.current_gprofiler and new_args.continuous; with new_args = None the
\* latter raises AttributeError, which is reported as 'failed'. Otherwise the
\* thread is recorded and started; _run_profiler returns at once for None.
StartThread ==
    /\ pc["hb"] = "start_thread"
    /\ IF ~hb_resp.host_targeted
       THEN /\ SendCommandCompletion(hb_resp.command_id, "failed",
                                      ErrorMessage("str(e)", "AttributeError"))
            /\ UNCHANGED <<current_thread, run_pc>>
       ELSE /\ UNCHANGED tick_sent
            /\ IF current_gprofiler = NoProfiler
               THEN UNCHANGED <<current_thread, run_pc>>
               ELSE /\ current_thread' = current_gprofiler
                    /\ run_pc' = [run_pc EXCEPT ![current_gprofiler] = "running"]
    /\ pc' = [pc EXCEPT !["hb"] = "report"]
    /\ UNCHANGED <<executed_command_ids, last_command_id, current_gprofiler, stop_event,
                   hb_resp, hb_outcome, ticks, n_profilers, prof_stop_set, exec_count,
                   start_count, evict_count>>

\* Mutant of HBReport: every command type is reported as completed.
MutHBReportAlwaysCompleted ==
    /\ pc["hb"] = "report"
    /\ SendCommandCompletion(hb_resp.command_id, "completed", NoMessage)
    /\ pc' = [pc EXCEPT !["hb"] = "wait"]
    /\ UNCHANGED <<executed_command_ids, last_command_id, current_gprofiler,
                   current_thread, stop_event, hb_resp, hb_outcome, ticks, n_profilers,
                   run_pc, prof_stop_set, exec_count, start_count, evict_count>>

\* start_heartbeat_loop lines 266-300: the completion report of the command:
\* 'completed' for stop and start, 'failed' with the reason for any other
\* command type.
HBReport ==
    /\ pc["hb"] = "report"
    /\ IF hb_resp.command_type \in {"stop", "start"}
       THEN SendCommandCompletion(hb_resp.command_id, "completed", NoMessage)
       ELSE SendCommandCompletion(hb_resp.command_id, "failed",
                ErrorMessage("Unknown command type: ", hb_resp.command_type))
    /\ pc' = [pc EXCEPT !["hb"] = "wait"]
    /\ UNCHANGED <<executed_command_ids, last_command_id, current_gprofiler,
                   current_thread, stop_event, hb_resp, hb_outcome, ticks, n_profilers,
                   run_pc, prof_stop_set, exec_count, start_count, evict_count>>

\* start_heartbeat_loop lines 249 / 304 / 308: stop_event.wait(heartbeat_interval)
HBWait ==
    /\ pc["hb"] = "wait"
    /\ pc' = [pc EXCEPT !["hb"] = "send"]
    /\ UNCHANGED <<executed_command_ids, last_command_id, current_gprofiler,
                   current_thread, stop_event, hb_resp, hb_outcome, ticks, n_profilers,
                   run_pc, prof_stop_set, histHB>>

\* _run_profiler lines 612-645: the run ends (duration over, stopped, or failed)
\* and the finally block tests self.current_gprofiler == gprofiler.
RunEnd(g) ==
    /\ run_pc[g] = "running"
    /\ run_pc' = [run_pc EXCEPT ![g] = IF current_gprofiler = g THEN "clearing" ELSE "ended"]
    /\ UNCHANGED <<executed_command_ids, last_command_id, current_gprofiler,
                   current_thread, stop_event, pc, hb_resp, hb_outcome, ticks,
                   n_profilers, prof_stop_set, histHB>>

\* _run_profiler line 646: self.current_gprofiler = None
RunClear(g) ==
    /\ run_pc[g] = "clearing"
    /\ current_gprofiler' = NoProfiler
    /\ run_pc' = [run_pc EXCEPT ![g] = "ended"]
    /\ UNCHANGED <<executed_command_ids, last_command_id, current_thread, stop_event,
                   pc, hb_resp, hb_outcome, ticks, n_profilers, prof_stop_set, histHB>>

\* DynamicGProfilerManager.stop lines 648-652: set stop_event, then
\* _stop_current_profiler, on the thread that shuts the agent down.
ManagerStop ==
    /\ pc["main"] = "idle"
    /\ stop_event' = TRUE
    /\ pc' = [pc EXCEPT !["main"] = "stop_test"]
    /\ UNCHANGED <<executed_command_ids, last_command_id, current_gprofiler,
                   current_thread, hb_resp, hb_outcome, ticks, n_profilers, run_pc,
                   prof_stop_set, histHB>>

NextHB ==
    \/ HBSend
    \/ HBCheck
    \/ \E th \in {"hb", "main"} :
          \/ StopTest(th)
          \/ StopCall(th)
          \/ StopCleanup(th)
          \/ StopClear(th)
          \/ StopJoinTest(th)
          \/ StopJoin(th)
    \/ StartCreate
    \/ StartThread
    \/ HBReport
    \/ HBWait
    \/ \E g \in Profilers : RunEnd(g) \/ RunClear(g)

\* The heartbeat loop together with the shutdown of the manager.
NextHBStop ==
    \/ NextHB
    \/ ManagerStop

(***************************************************************************)
(* Subprocess registry and its reap pass                                   *)
(* (docs/subprocess_gc_proof.py cleanup_completed_processes, called        *)
(* through MemoryManager._cleanup_subprocess_objects)                      *)
(***************************************************************************)
VARIABLES
    processes_list,     \* the registry: list of Popen handles (_processes)
    proc_state,         \* per handle: "unspawned", "running" or "exited" (the OS process)
    pipes,              \* per handle: state of stdin, stdout, stderr ("none", "open", "closed")
    reaped,             \* per handle: its exit status was collected by communicate()
    reap_pc,            \* "idle", or "scan" while a pass walks the list
    reap_i,             \* index of the next handle the pass looks at
    running_processes,  \* local list running_processes of the pass
    counts,             \* local counters running_count, completed_count, resources_freed
    cleanup_result,     \* the dict returned by the last pass
    pass_list,          \* history: the registry as it was when the pass started
    polled_running,     \* history: handles whose poll() returned None in the pass
    polled_exited       \* history: handles whose poll() returned an exit status in the pass

varsReap == <<processes_list, proc_state, pipes, reaped, reap_pc, reap_i,
              running_processes, counts, cleanup_result, pass_list, polled_running,
              polled_exited>>

\* Bound: number of subprocesses ever spawned.
MaxProcs == 3

Handles == 1..MaxProcs
PipeNames == {"stdin", "stdout", "stderr"}

ZeroCounts == [running_count |-> 0, completed_count |-> 0, resources_freed |-> 0]

\* The statistics dict returned by cleanup_completed_processes.
CleanupResult(c) ==
    [total_processes |-> c.running_count + c.completed_count,
     completed_processes |-> c.completed_count,
     running_processes |-> c.running_count,
     processes_cleaned |-> c.completed_count,
     resources_freed |-> c.resources_freed]

InitReap ==
    /\ processes_list = <<>>
    /\ proc_state = [h \in Handles |-> "unspawned"]
    /\ pipes = [h \in Handles |-> [n \in PipeNames |-> "none"]]
    /\ reaped = [h \in Handles |-> FALSE]
    /\ reap_pc = "idle"
    /\ reap_i = 1
    /\ running_processes = <<>>
    /\ counts = ZeroCounts
    /\ cleanup_result = CleanupResult(ZeroCounts)
    /\ pass_list = <<>>
    /\ polled_running = {}
    /\ polled_exited = {}

\* subprocess.Popen(..., stdout=PIPE, stderr=PIPE[, stdin=PIPE]) followed by
\* _processes.append(process): handles are numbered in spawn order.
Spawn(h, with_stdin) ==
    /\ reap_pc = "idle"
    /\ proc_state[h] = "unspawned"
    /\ \A k \in Handles : k < h => proc_state[k] # "unspawned"
    /\ proc_state' = [proc_state EXCEPT ![h] = "running"]
    /\ pipes' = [pipes EXCEPT ![h] = [n \in PipeNames |->
                    IF n = "stdin" /\ ~with_stdin THEN "none" ELSE "open"]]
    /\ processes_list' = Append(processes_list, h)
    /\ UNCHANGED <<reaped, reap_pc, reap_i, running_processes, counts, cleanup_result,
                   pass_list, polled_running, polled_exited>>

\* The child process exits (the operating system, at any time).
ProcessExits(h) ==
    /\ proc_state[h] = "running"
    /\ proc_state' = [proc_state EXCEPT ![h] = "exited"]
    /\ UNCHANGED <<processes_list, pipes, reaped, reap_pc, reap_i, running_processes,
                   counts, cleanup_result, pass_list, polled_running, polled_exited>>

\* The owner of a handle reads it to the end itself (process.communicate()),
\* which closes its pipes and collects the exit status.
OwnerCommunicates(h) ==
    /\ reap_pc = "idle"
    /\ proc_state[h] = "exited"
    /\ ~reaped[h]
    /\ pipes' = [pipes EXCEPT ![h] = [n \in PipeNames |->
                    IF pipes[h][n] = "open" THEN "closed" ELSE pipes[h][n]]]
    /\ reaped' = [reaped EXCEPT ![h] = TRUE]
    /\ UNCHANGED <<processes_list, proc_state, reap_pc, reap_i, running_processes, counts,
                   cleanup_result, pass_list, polled_running, polled_exited>>

\* cleanup_completed_processes lines 183-197: an empty list returns at once,
\* otherwise the walk starts.
ReapStart ==
    /\ reap_pc = "idle"
    /\ polled_running' = {}
    /\ polled_exited' = {}
    /\ pass_list' = processes_list
    /\ IF processes_list = <<>>
       THEN /\ cleanup_result' = CleanupResult(ZeroCounts)
            /\ UNCHANGED <<reap_pc, reap_i, running_processes, counts>>
       ELSE /\ reap_pc' = "scan"
            /\ reap_i' = 1
            /\ running_processes' = <<>>
            /\ counts' = ZeroCounts
            /\ UNCHANGED cleanup_result
    /\ UNCHANGED <<processes_list, proc_state, pipes, reaped>>

\* The order in which lines 206-214 close the pipes.
CloseOrder == <<"stdout", "stderr", "stdin">>

\* Lines 204-222 for one exited handle. failed_at = 0: nothing raised;
\* failed_at = k in 1..3: the close() of the k-th pipe raised; failed_at = 4:
\* communicate() raised. The try block is left at the first exception and
\* `except Exception: pass` swallows it. A pipe is closed when it is not None
\* and not yet closed; a close() that raises still leaves its file object closed.
PipesAfterCleanup(p, failed_at) ==
    [n \in PipeNames |->
        LET k == CHOOSE x \in 1..3 : CloseOrder[x] = n
        IN IF p[n] = "open" /\ (failed_at = 0 \/ k <= failed_at) THEN "closed" ELSE p[n]]

\* Number of `resources_freed += 1` executed: closes that returned normally.
FreedByCleanup(p, failed_at) ==
    Cardinality({k \in 1..3 : p[CloseOrder[k]] = "open"
                              /\ (failed_at = 0 \/ k < failed_at)})

\* The exceptions that can happen for a handle with pipes p.
PossibleFailures(p) ==
    {0, 4} \cup {k \in 1..3 : p[CloseOrder[k]] = "open"}

\* cleanup_completed_processes lines 202-222: the else branch of the poll.
CleanupExited(h, failed_at) ==
    /\ pipes' = [pipes EXCEPT ![h] = PipesAfterCleanup(pipes[h], failed_at)]
    /\ reaped' = [reaped EXCEPT ![h] = (reaped[h] \/ failed_at = 0)]
    /\ counts' = [counts EXCEPT !.completed_count = @ + 1,
                                !.resources_freed = @ + FreedByCleanup(pipes[h], failed_at)]

\* Mutant of KeepRunning: the handle is counted but not kept.
MutKeepRunningDropsHandle(h) ==
    /\ running_processes' = running_processes
    /\ counts' = [counts EXCEPT !.running_count = @ + 1]
    /\ UNCHANGED <<pipes, reaped>>

\* cleanup_completed_processes lines 199-201: the handle is still running.
KeepRunning(h) ==
    /\ running_processes' = Append(running_processes, h)
    /\ counts' = [counts EXCEPT !.running_count = @ + 1]
    /\ UNCHANGED <<pipes, reaped>>

\* cleanup_completed_processes lines 198-222: one iteration of the for loop.
ReapStep ==
    /\ reap_pc = "scan"
    /\ reap_i <= Len(processes_list)
    /\ LET h == processes_list[reap_i]
       IN IF proc_state[h] = "running"
          THEN /\ KeepRunning(h)
               /\ polled_running' = polled_running \cup {h}
               /\ UNCHANGED polled_exited
          ELSE /\ \E failed_at \in PossibleFailures(pipes[h]) : CleanupExited(h, failed_at)
               /\ polled_exited' = polled_exited \cup {h}
               /\ UNCHANGED <<running_processes, polled_running>>
    /\ reap_i' = reap_i + 1
    /\ UNCHANGED <<processes_list, proc_state, reap_pc, cleanup_result, pass_list>>

\* cleanup_completed_processes lines 224-234: the list is replaced by
\* running_processes and the statistics are returned.
ReapFinish ==
    /\ reap_pc = "scan"
    /\ reap_i > Len(processes_list)
    /\ processes_list' = running_processes
    /\ cleanup_result' = CleanupResult(counts)
    /\ reap_pc' = "idle"
    /\ UNCHANGED <<proc_state, pipes, reaped, reap_i, running_processes, counts,
                   pass_list, polled_running, polled_exited>>

NextReap ==
    \/ \E h \in Handles, with_stdin \in BOOLEAN : Spawn(h, with_stdin)
    \/ \E h \in Handles : ProcessExits(h)
    \/ \E h \in Handles : OwnerCommunicates(h)
    \/ ReapStart
    \/ ReapStep
    \/ ReapFinish

(***************************************************************************)
(* PerfProcess: the supervisor of the perf record child                    *)
(* (gprofiler/utils/perf_process.py)                                       *)
(***************************************************************************)
VARIABLES
    perf_obj,            \* "unconstructed", "constructed", or "refused" (__init__ raised)
    perf_request,        \* the arguments and environment of the last construction
    perf_init_error,     \* the exception raised by the last construction
    pid_args,            \* self._pid_args
    cgroup_args,         \* self._cgroup_args
    perf_process,        \* self._process: NoChild (None) or a child
    private_start_time,  \* self._start_time, the attribute restart_if_rss_exceeded reads
    start_time,          \* self.start_time, the attribute start() writes
    perf_pc,             \* position of the caller inside an operation, "idle" between operations
    process,             \* the local variable process of start()
    perf_raised,         \* the exception the last operation raised, or "none"
    child_state,         \* per child: "unspawned", "running", "exited", "killed", "terminated"
    child_stdout,        \* per child: the supervisor's end of its stdout, "none", "open", "closed"
    output_exists,       \* os.path.exists(self._output_path)
    dump_files,          \* number of files named <output_path>.<timestamp>
    signal_pending,      \* SIGUSR2 was sent to the child and not yet handled
    perf_now,            \* time.monotonic()
    perf_script_proc,    \* the local perf_script_proc of wait_and_script: NoChild or ScriptChild
    script_state,        \* the perf script child: "none", "running", "exited_zero", "exited_nonzero"
    registry,            \* the children the process registry of gprofiler.utils tracks
    young_rss_restart    \* history: restart_if_rss_exceeded restarted a child started less
                         \* than RESTART_AFTER_S before

varsPerf == <<perf_obj, perf_request, perf_init_error, pid_args, cgroup_args, perf_process,
              private_start_time, start_time, perf_pc, process, perf_raised, child_state,
              child_stdout, output_exists, dump_files, signal_pending, perf_now,
              perf_script_proc, script_state, script_state, registry, young_rss_restart>>

perfConfig == <<perf_obj, perf_request, perf_init_error, pid_args, cgroup_args,
                private_start_time>>

RESTART_AFTER_S == 600

\* Bounds: children ever spawned, dump files on disk, clock ticks and their length.
MaxChildren == 2
MaxDumps == 1
MaxClockTicks == 1
ClockStep == 600

Children == 1..MaxChildren
NoChild == 0
\* The perf script child of wait_and_script; one at a time, gone when the call returns.
ScriptChild == MaxChildren + 1

NoRequest ==
    [use_cgroups |-> FALSE, cgroup_available |-> FALSE, perf_cgroup_support |-> FALSE,
     top_cgroups |-> "none", processes_to_profile |-> FALSE,
     max_cgroups |-> 0, max_docker_containers |-> 0]

\* What the constructor is given and what it finds on the host: top_cgroups is
\* the outcome of get_top_cgroup_names_for_perf ("found", "empty" or "raises").
Requests ==
    {r \in [use_cgroups : BOOLEAN, cgroup_available : BOOLEAN, perf_cgroup_support : BOOLEAN,
            top_cgroups : {"none", "found", "empty", "raises"},
            processes_to_profile : BOOLEAN,
            max_cgroups : {0, 50}, max_docker_containers : {0, 5}] :
        \* the enumeration is only called, and the limits only looked at, on the
        \* cgroup branch
        /\ (r.top_cgroups = "none") = ~(r.use_cgroups /\ r.cgroup_available
                                        /\ r.perf_cgroup_support)
        /\ r.top_cgroups # "empty" => (r.max_cgroups = 50 /\ r.max_docker_containers = 0)}

NoError == [type |-> "none", message |-> "none", wrapped |-> FALSE]

\* PerfNoSupportedEvent raised inside the try block is caught by
\* `except Exception` and raised again with the prefix "Cgroup profiling failed: ".
WrappedError(msg) == [type |-> "PerfNoSupportedEvent", message |-> msg, wrapped |-> TRUE]

InitPerf ==
    /\ perf_obj = "unconstructed"
    /\ perf_request = NoRequest
    /\ perf_init_error = NoError
    /\ pid_args = <<>>
    /\ cgroup_args = <<>>
    /\ perf_process = NoChild
    /\ private_start_time = 0
    /\ start_time = 0
    /\ perf_pc = "idle"
    /\ process = NoChild
    /\ perf_raised = "none"
    /\ child_state = [c \in Children |-> "unspawned"]
    /\ child_stdout = [c \in Children |-> "none"]
    /\ output_exists = FALSE
    /\ dump_files = 0
    /\ signal_pending = FALSE
    /\ perf_now = 0
    /\ perf_script_proc = NoChild
    /\ script_state = "none"
    /\ registry = {}
    /\ young_rss_restart = FALSE

\* The condition of the first branch of __init__ (line 95).
UsesCgroupBranch(r) ==
    r.use_cgroups /\ r.cgroup_available /\ r.perf_cgroup_support

\* The message of the PerfNoSupportedEvent raised when no cgroup was returned
\* (lines 104-121).
NoCgroupMessage(r) ==
    IF r.max_docker_containers > 0
    THEN "Docker container profiling requested but no containers available"
    ELSE IF r.max_cgroups > 0
    THEN "Cgroup profiling requested but no cgroups available"
    ELSE "Cgroup profiling requested but no containers or cgroups specified"

\* PerfProcess.__init__ (lines 68-137).
PerfConstruct(r) ==
    /\ perf_obj # "constructed"
    /\ perf_pc = "idle"
    /\ perf_request' = r
    /\ private_start_time' = 0
    /\ IF UsesCgroupBranch(r)
       THEN CASE r.top_cgroups = "found" ->
                    /\ pid_args' = <<"-a">>
                    /\ cgroup_args' = <<"-G">>
                    /\ perf_obj' = "constructed"
                    /\ perf_init_error' = NoError
              [] r.top_cgroups = "empty" ->
                    /\ pid_args' = <<>>
                    /\ cgroup_args' = <<>>
                    /\ perf_obj' = "refused"
                    /\ perf_init_error' = WrappedError(NoCgroupMessage(r))
              [] r.top_cgroups = "raises" ->
                    /\ pid_args' = <<>>
                    /\ cgroup_args' = <<>>
                    /\ perf_obj' = "refused"
                    /\ perf_init_error' = WrappedError("get_top_cgroup_names_for_perf")
       ELSE /\ pid_args' = IF r.processes_to_profile THEN <<"--pid">> ELSE <<"-a">>
            /\ cgroup_args' = <<>>
            /\ perf_obj' = "constructed"
            /\ perf_init_error' = NoError
    /\ UNCHANGED <<perf_process, start_time, perf_pc, process, perf_raised, child_state,
                   child_stdout, output_exists, dump_files, signal_pending, perf_now,
                   perf_script_proc, script_state, registry, young_rss_restart>>

\* PerfProcess.is_running (lines 236-240).
is_running ==
    perf_process # NoChild /\ child_state[perf_process] = "running"

\* Mutant of PerfStopBody: the handle is kept after the child was reaped.
MutPerfStopBodyKeepsHandle ==
    IF perf_process # NoChild
    THEN /\ child_state' = [child_state EXCEPT ![perf_process] =
                                IF @ = "running" THEN "terminated" ELSE @]
         /\ child_stdout' = [child_stdout EXCEPT ![perf_process] = "closed"]
         /\ perf_process' = perf_process
         /\ signal_pending' = FALSE
    ELSE UNCHANGED <<child_state, child_stdout, perf_process, signal_pending>>

\* PerfProcess.stop (lines 229-234): terminate() (harmless on a dead child),
\* reap_process() reads the pipes to the end and closes them, _process = None.
PerfStopBody ==
    IF perf_process # NoChild
    THEN /\ child_state' = [child_state EXCEPT ![perf_process] =
                                IF @ = "running" THEN "terminated" ELSE @]
         /\ child_stdout' = [child_stdout EXCEPT ![perf_process] = "closed"]
         /\ perf_process' = NoChild
         /\ signal_pending' = FALSE
    ELSE UNCHANGED <<child_state, child_stdout, perf_process, signal_pending>>

\* stop() called on its own.
PerfStop ==
    /\ perf_obj = "constructed"
    /\ perf_pc = "idle"
    /\ PerfStopBody
    /\ perf_raised' = "none"
    /\ UNCHANGED <<perfConfig, perf_script_proc, script_state, registry, young_rss_restart,
                   start_time, perf_pc, process, output_exists, dump_files,
                   perf_now>>

\* start() up to the spawn (lines 190-196): the old output file is removed.
PerfStartCall ==
    /\ perf_obj = "constructed"
    /\ perf_pc = "idle"
    /\ output_exists' = FALSE
    /\ perf_pc' = "start_spawn"
    /\ perf_raised' = "none"
    /\ UNCHANGED <<perfConfig, perf_script_proc, script_state, registry, young_rss_restart,
                   perf_process, start_time, process, child_state, child_stdout,
                   dump_files, signal_pending, perf_now>>

\* restart() (lines 242-244): stop(), then start() up to the spawn.
PerfRestartBody ==
    /\ PerfStopBody
    /\ output_exists' = FALSE
    /\ perf_pc' = "start_spawn"
    /\ perf_raised' = "none"
    /\ UNCHANGED <<perfConfig, perf_script_proc, script_state, registry, start_time, process, dump_files,
                   perf_now>>

PerfRestart ==
    /\ perf_obj = "constructed"
    /\ perf_pc = "idle"
    /\ PerfRestartBody
    /\ UNCHANGED young_rss_restart

\* start_process of gprofiler.utils: the new child is appended to the
\* registry's list.
start_process(c) ==
    registry' = registry \cup {c}

\* subprocess.Popen called directly (line 315): nothing is recorded anywhere.
Popen(c) ==
    registry' = registry

\* start_process(perf_cmd) (lines 198-212): CalledProcessError is logged and
\* raised again; otherwise there is a new child with its pipes open.
PerfStartSpawn ==
    /\ perf_pc = "start_spawn"
    /\ \/ /\ perf_raised' = "CalledProcessError"
          /\ perf_pc' = "idle"
          /\ UNCHANGED <<process, child_state, child_stdout, registry>>
       \/ \E c \in Children :
            /\ child_state[c] = "unspawned"
            /\ \A k \in Children : k < c => child_state[k] # "unspawned"
            /\ child_state' = [child_state EXCEPT ![c] = "running"]
            /\ child_stdout' = [child_stdout EXCEPT ![c] = "open"]
            /\ process' = c
            /\ perf_pc' = "start_wait"
            /\ start_process(c)
            /\ UNCHANGED perf_raised
    /\ UNCHANGED <<perfConfig, perf_script_proc, script_state, young_rss_restart, perf_process, start_time,
                   output_exists, dump_files,
                   signal_pending, perf_now>>

\* Mutant of PerfStartWait: on a timeout the child is left alive.
MutPerfStartWaitTimeoutSparesChild ==
    /\ perf_pc = "start_wait"
    /\ \/ /\ output_exists
          /\ start_time' = perf_now
          /\ perf_process' = process
          /\ UNCHANGED <<perf_raised, child_state>>
       \/ /\ ~output_exists
          /\ perf_raised' = "TimeoutError"
          /\ UNCHANGED <<start_time, perf_process, child_state>>
       \/ /\ ~output_exists
          /\ perf_raised' = "StopEventSetException"
          /\ UNCHANGED <<start_time, perf_process, child_state>>
    /\ perf_pc' = "idle"
    /\ process' = NoChild
    /\ UNCHANGED <<perfConfig, perf_script_proc, script_state, registry, young_rss_restart,
                   child_stdout, output_exists, dump_files, signal_pending,
                   perf_now>>

\* wait_event and what follows it (lines 214-227). The output file is there:
\* start_time is written and the child is recorded. The wait times out: the
\* child is killed and TimeoutError raised. The stop event is set: wait_event
\* raises its own exception, which is no TimeoutError, so the child is
\* neither killed nor recorded.
PerfStartWait ==
    /\ perf_pc = "start_wait"
    /\ \/ /\ output_exists
          /\ start_time' = perf_now
          /\ perf_process' = process
          /\ UNCHANGED <<perf_raised, child_state>>
       \/ /\ ~output_exists
          /\ child_state' = [child_state EXCEPT ![process] =
                                IF @ = "running" THEN "killed" ELSE @]
          /\ perf_raised' = "TimeoutError"
          /\ UNCHANGED <<start_time, perf_process>>
       \/ /\ ~output_exists
          /\ perf_raised' = "StopEventSetException"
          /\ UNCHANGED <<start_time, perf_process, child_state>>
    /\ perf_pc' = "idle"
    /\ process' = NoChild
    /\ UNCHANGED <<perfConfig, perf_script_proc, script_state, registry, young_rss_restart,
                   child_stdout, output_exists, dump_files, signal_pending,
                   perf_now>>

\* restart_if_not_running (lines 246-252).
PerfRestartIfNotRunning ==
    /\ perf_obj = "constructed"
    /\ perf_pc = "idle"
    /\ IF ~is_running
       THEN PerfRestartBody /\ UNCHANGED young_rss_restart
       ELSE /\ perf_raised' = "none"
            /\ UNCHANGED <<perfConfig, perf_script_proc, script_state, registry, young_rss_restart,
                           perf_process, start_time, perf_pc, process,
                           child_state, child_stdout, output_exists, dump_files,
                           signal_pending, perf_now>>

\* restart_if_rss_exceeded (lines 254-267). rss_high is the outcome of
\* perf_rss >= _PERF_MEMORY_USAGE_THRESHOLD; reading the memory of a child that
\* is gone raises.
PerfRestartIfRssExceeded(rss_high) ==
    /\ perf_obj = "constructed"
    /\ perf_pc = "idle"
    /\ IF perf_process = NoChild
       THEN /\ perf_raised' = "AssertionError"
            /\ UNCHANGED <<perfConfig, perf_script_proc, script_state, registry, young_rss_restart,
                           perf_process, start_time, perf_pc, process,
                           child_state, child_stdout, output_exists, dump_files,
                           signal_pending, perf_now>>
       ELSE IF child_state[perf_process] # "running"
       THEN /\ perf_raised' = "NoSuchProcess"
            /\ UNCHANGED <<perfConfig, perf_script_proc, script_state, registry, young_rss_restart,
                           perf_process, start_time, perf_pc, process,
                           child_state, child_stdout, output_exists, dump_files,
                           signal_pending, perf_now>>
       ELSE IF perf_now - private_start_time >= RESTART_AFTER_S /\ rss_high
       THEN /\ PerfRestartBody
            /\ young_rss_restart' = (young_rss_restart
                                        \/ perf_now - start_time < RESTART_AFTER_S)
       ELSE /\ perf_raised' = "none"
            /\ UNCHANGED <<perfConfig, perf_script_proc, script_state, registry, young_rss_restart,
                           perf_process, start_time, perf_pc, process,
                           child_state, child_stdout, output_exists, dump_files,
                           signal_pending, perf_now>>

\* switch_output (lines 269-275): stale dump files are removed, then SIGUSR2
\* is sent (send_signal does nothing for a child that has exited).
PerfSwitchOutput ==
    /\ perf_obj = "constructed"
    /\ perf_pc = "idle"
    /\ IF perf_process = NoChild
       THEN /\ perf_raised' = "AssertionError"
            /\ UNCHANGED <<dump_files, signal_pending>>
       ELSE /\ perf_raised' = "none"
            /\ dump_files' = 0
            /\ signal_pending' = (child_state[perf_process] = "running")
    /\ UNCHANGED <<perfConfig, perf_script_proc, script_state, registry, young_rss_restart,
                   perf_process, start_time, perf_pc, process, child_state,
                   child_stdout, output_exists, perf_now>>

\* wait_and_script up to the spawn of perf script (lines 277-304).
\* wait_for_file_by_prefix finds a dump file or raises; in both cases the
\* pipes of the recorded child are read, which asserts that there is one.
PerfWaitAndScriptCall ==
    /\ perf_obj = "constructed"
    /\ perf_pc = "idle"
    /\ IF perf_process = NoChild
       THEN /\ perf_raised' = "AssertionError"
            /\ UNCHANGED perf_pc
       ELSE IF dump_files = 0
       THEN /\ perf_raised' \in {"TimeoutError", "StopEventSetException"}
            /\ UNCHANGED perf_pc
       ELSE /\ perf_raised' = "none"
            /\ perf_pc' = "script_spawn"
    /\ UNCHANGED <<perfConfig, perf_script_proc, script_state, registry, young_rss_restart, perf_process,
                   start_time, process,
                   child_state, child_stdout, output_exists, dump_files, signal_pending,
                   perf_now>>

\* perf inject and the spawn of perf script (lines 306-317). Either may fail:
\* the exception is logged and raised again, and the finally block removes the
\* dump file (lines 338-356).
PerfScriptSpawn ==
    /\ perf_pc = "script_spawn"
    /\ \/ /\ perf_raised' \in {"CalledProcessError", "OSError"}
          /\ perf_pc' = "idle"
          /\ dump_files' = IF dump_files > 0 THEN dump_files - 1 ELSE 0
          /\ UNCHANGED <<perf_script_proc, script_state, registry>>
       \/ /\ perf_script_proc' = ScriptChild
          /\ script_state' = "running"
          /\ Popen(ScriptChild)
          /\ perf_pc' = "script_stream"
          /\ UNCHANGED <<perf_raised, dump_files>>
    /\ UNCHANGED <<perfConfig, young_rss_restart, perf_process, start_time, process,
                   child_state, child_stdout, output_exists, signal_pending, perf_now>>

\* How the loop over perf script's stdout ends (lines 320-343): the child
\* closes its stdout and exits, with status zero or not, and the generator
\* returns after wait(); reading raises, which is logged and raised again; the
\* consumer closes the generator, which raises GeneratorExit at the yield.
StreamOutcomes == {"exit_zero", "exit_nonzero", "error", "closed"}

PerfScriptStream(outcome) ==
    /\ perf_pc = "script_stream"
    /\ script_state' = CASE outcome = "exit_zero" -> "exited_zero"
                         [] outcome = "exit_nonzero" -> "exited_nonzero"
                         [] OTHER -> "running"
    /\ perf_raised' = CASE outcome = "error" -> "OSError"
                        [] outcome = "closed" -> "GeneratorExit"
                        [] OTHER -> "none"
    /\ perf_pc' = "script_finally"
    /\ UNCHANGED <<perfConfig, perf_script_proc, registry, young_rss_restart, perf_process,
                   start_time, process, dump_files,
                   child_state, child_stdout, output_exists, signal_pending, perf_now>>

\* The finally block (lines 344-356): terminate() and wait(timeout=5), with
\* OSError and TimeoutError swallowed, then the dump file is removed. When the
\* child is still running and does not exit within the 5 s, wait() raises
\* subprocess.TimeoutExpired, which is neither: it leaves the block before
\* the file is removed.
PerfScriptFinally(exits_in_time) ==
    /\ perf_pc = "script_finally"
    /\ perf_script_proc' = NoChild
    /\ perf_pc' = "idle"
    /\ IF script_state = "running" /\ ~exits_in_time
       THEN /\ perf_raised' = "TimeoutExpired"
            /\ UNCHANGED <<script_state, dump_files>>
       ELSE /\ script_state' = "none"
            /\ dump_files' = IF dump_files > 0 THEN dump_files - 1 ELSE 0
            /\ perf_raised' = IF perf_raised = "GeneratorExit" THEN "none" ELSE perf_raised
    /\ UNCHANGED <<perfConfig, registry, young_rss_restart, perf_process, start_time, process,
                   child_state, child_stdout, output_exists, signal_pending, perf_now>>

\* The perf child exits on its own, at any time.
ChildExits(c) ==
    /\ child_state[c] = "running"
    /\ child_state' = [child_state EXCEPT ![c] = "exited"]
    /\ signal_pending' = IF c = perf_process THEN FALSE ELSE signal_pending
    /\ UNCHANGED <<perfConfig, perf_script_proc, script_state, registry, young_rss_restart,
                   perf_process, start_time, perf_pc, process, perf_raised,
                   child_stdout, output_exists, dump_files, perf_now>>

\* A running child creates its output file.
ChildWritesOutput(c) ==
    /\ child_state[c] = "running"
    /\ ~output_exists
    /\ output_exists' = TRUE
    /\ UNCHANGED <<perfConfig, perf_script_proc, script_state, registry, young_rss_restart,
                   perf_process, start_time, perf_pc, process, perf_raised,
                   child_state, child_stdout, dump_files, signal_pending, perf_now>>

\* The recorded child dumps a timestamped file: when it handles SIGUSR2, or
\* when its rotation timeout expires (--switch-output=<timeout>s,signal, lines
\* 174-175), which leaves a signal that was sent pending.
ChildDumps(by_signal) ==
    /\ is_running
    /\ dump_files < MaxDumps
    /\ by_signal => signal_pending
    /\ dump_files' = dump_files + 1
    /\ signal_pending' = IF by_signal THEN FALSE ELSE signal_pending
    /\ UNCHANGED <<perfConfig, perf_script_proc, script_state, registry, young_rss_restart,
                   perf_process, start_time, perf_pc, process, perf_raised,
                   child_state, child_stdout, output_exists, perf_now>>

\* time.monotonic() advances.
PerfTick ==
    /\ perf_now < MaxClockTicks * ClockStep
    /\ perf_now' = perf_now + ClockStep
    /\ UNCHANGED <<perfConfig, perf_script_proc, script_state, registry, young_rss_restart,
                   perf_process, start_time, perf_pc, process, perf_raised,
                   child_state, child_stdout, output_exists, dump_files, signal_pending>>

NextPerf ==
    \/ \E r \in Requests : PerfConstruct(r)
    \/ PerfStartCall
    \/ PerfStartSpawn
    \/ PerfStartWait
    \/ PerfStop
    \/ PerfRestart
    \/ PerfRestartIfNotRunning
    \/ \E rss_high \in BOOLEAN : PerfRestartIfRssExceeded(rss_high)
    \/ PerfSwitchOutput
    \/ PerfWaitAndScriptCall
    \/ PerfScriptSpawn
    \/ \E outcome \in StreamOutcomes : PerfScriptStream(outcome)
    \/ \E exits_in_time \in BOOLEAN : PerfScriptFinally(exits_in_time)
    \/ \E c \in Children : ChildExits(c)
    \/ \E c \in Children : ChildWritesOutput(c)
    \/ \E by_signal \in BOOLEAN : ChildDumps(by_signal)
    \/ PerfTick

(***************************************************************************)
(* Discovery of the perf event (gprofiler/utils/perf.py)                   *)
(***************************************************************************)
VARIABLES
    disc_pc,            \* "idle", "try" (top of the for loop body), "handle", "done"
    disc_pids,          \* whether pids was given to discover_appropriate_perf_event
    disc_use_cgroups,   \* the use_cgroups argument
    disc_event,         \* index of the loop variable event in SupportedPerfEvent
    disc_outcome,       \* what happened in the try block of the current iteration
    disc_outcomes,      \* history: the outcomes of the iterations so far
    segfault_count,     \* the local segfault_count
    pid_failure_count,  \* the local pid_failure_count
    disc_perf_running,  \* the PerfProcess of the current iteration holds a child
    disc_stops,         \* history: number of perf_process.stop() calls in finally
    disc_critical,      \* which logger.critical message was written, or "none"
    disc_result         \* what the call returned or raised

varsDisc == <<disc_pc, disc_pids, disc_use_cgroups, disc_event, disc_outcome, disc_outcomes,
              segfault_count, pid_failure_count, disc_perf_running, disc_stops,
              disc_critical, disc_result>>

\* The members of the enum SupportedPerfEvent, in declaration order.
SupportedPerfEvent == <<"default", "cpu-clock", "task-clock">>

total_events == Len(SupportedPerfEvent)

NoResult == [kind |-> "none", value |-> "none"]
Returned(event) == [kind |-> "returned", value |-> event]
Raised(exc) == [kind |-> "raised", value |-> exc]

\* How the try block of one iteration (lines 98-131) can end:
\*   "segfault":    start() raises CalledProcessError with a negative returncode
\*   "pid_error":   start() raises CalledProcessError whose text names a bad PID
\*   "other_error": start() raises anything else (e.g. TimeoutError)
\*   "started":     start() returned; wait_and_script() is a generator function,
\*                  so perf_output is a generator object and len(perf_output) in
\*                  line 124 raises TypeError
TryOutcomes == {"segfault", "pid_error", "other_error", "started"}

InitDisc ==
    /\ disc_pc = "idle"
    /\ disc_pids = FALSE
    /\ disc_use_cgroups = FALSE
    /\ disc_event = 1
    /\ disc_outcome = "none"
    /\ disc_outcomes = <<>>
    /\ segfault_count = 0
    /\ pid_failure_count = 0
    /\ disc_perf_running = FALSE
    /\ disc_stops = 0
    /\ disc_critical = "none"
    /\ disc_result = NoResult

\* discover_appropriate_perf_event is called (lines 71-93).
DiscCall(pids, use_cgroups) ==
    /\ disc_pc \in {"idle", "done"}
    /\ disc_pids' = pids
    /\ disc_use_cgroups' = use_cgroups
    /\ disc_event' = 1
    /\ disc_outcome' = "none"
    /\ disc_outcomes' = <<>>
    /\ segfault_count' = 0
    /\ pid_failure_count' = 0
    /\ disc_perf_running' = FALSE
    /\ disc_stops' = 0
    /\ disc_critical' = "none"
    /\ disc_result' = NoResult
    /\ disc_pc' = "try"

\* The try block of one iteration (lines 96-131): a PerfProcess is constructed
\* (never with use_cgroups, so construction does not raise), started, and the
\* output is looked at.
DiscTry(outcome) ==
    /\ disc_pc = "try"
    /\ disc_event <= total_events
    /\ disc_outcome' = outcome
    /\ disc_perf_running' = (outcome = "started")
    /\ disc_pc' = "handle"
    /\ UNCHANGED <<disc_pids, disc_use_cgroups, disc_event, disc_outcomes, segfault_count,
                   pid_failure_count, disc_stops, disc_critical, disc_result>>

\* The except clause (lines 132-160): the exception is classified and counted.
DiscClassify(outcome) ==
    /\ segfault_count' =
          IF outcome = "segfault" THEN segfault_count + 1 ELSE segfault_count
    /\ pid_failure_count' =
          IF outcome = "pid_error" /\ disc_pids
          THEN pid_failure_count + 1 ELSE pid_failure_count

\* The except and finally clauses of one iteration (lines 132-162); every
\* iteration ends in the except clause, so the loop goes on to the next event.
DiscHandle ==
    /\ disc_pc = "handle"
    /\ DiscClassify(disc_outcome)
    /\ disc_perf_running' = FALSE
    /\ disc_stops' = disc_stops + 1
    /\ disc_outcomes' = Append(disc_outcomes, disc_outcome)
    /\ disc_outcome' = "none"
    /\ disc_event' = disc_event + 1
    /\ disc_pc' = "try"
    /\ UNCHANGED <<disc_pids, disc_use_cgroups, disc_critical, disc_result>>

\* After the loop (lines 164-179): a critical message when every event failed
\* for the same reason, then PerfNoSupportedEvent in every case.
DiscEnd ==
    /\ disc_pc = "try"
    /\ disc_event > total_events
    /\ disc_critical' =
          IF segfault_count = total_events THEN "segfaults"
          ELSE IF pid_failure_count = total_events THEN "pid_failures"
          ELSE "none"
    /\ disc_result' = Raised("PerfNoSupportedEvent")
    /\ disc_pc' = "done"
    /\ UNCHANGED <<disc_pids, disc_use_cgroups, disc_event, disc_outcome, disc_outcomes,
                   segfault_count, pid_failure_count, disc_perf_running, disc_stops>>

NextDisc ==
    \/ \E pids \in BOOLEAN, use_cgroups \in BOOLEAN : DiscCall(pids, use_cgroups)
    \/ \E outcome \in TryOutcomes : DiscTry(outcome)
    \/ DiscHandle
    \/ DiscEnd

(***************************************************************************)
(* Per-runtime samplers: selection of processes and profile workers        *)
(* (gprofiler/profilers/profiler_base.py, python.py, ruby.py)              *)
(***************************************************************************)
VARIABLES
    rt_profiler,        \* "none" before construction, then "pyspy" or "rbspy"
    rt_min_duration,    \* self._min_duration
    rt_cap,             \* profiler_state.max_processes_per_profiler (0: no cap)
    rt_phase,           \* snapshot(): "idle", "profiling", "waiting", "shutdown"
    rt_spawning,        \* self._threads is not None (_is_profiling_spawning)
    preexisting_pids,   \* self._preexisting_pids
    rt_workers,         \* workers of the snapshot's own executor that are running
    rt_spawned_workers, \* workers of self._threads that are running
    rt_sched,           \* self._sched: per pid 0, or the interval of its pending _check_process
    rt_profiled,        \* history: pids handed to _profile_process in this cycle
    rt_young_profiled,  \* history: one of them was younger than min_duration when chosen
    rt_check,           \* the pid whose _check_process the scheduler thread is in, past its
                        \* first test; NoCheck when it is in none
    rt_double_profiled  \* history: a pid already profiled in this cycle was handed to
                        \* _profile_process again

varsRt == <<rt_profiler, rt_min_duration, rt_cap, rt_phase, rt_spawning, preexisting_pids,
            rt_workers, rt_spawned_workers, rt_sched, rt_profiled, rt_young_profiled,
            rt_check, rt_double_profiled>>

rtConfig == <<rt_profiler, rt_min_duration, rt_cap>>

\* The default of min_duration in PySpyProfiler and RbSpyProfiler, in seconds.
DEFAULT_MIN_DURATION == 10

\* _BACKOFF_INIT and _BACKOFF_MAX, in tenths of a second.
BACKOFF_INIT == 1
BACKOFF_MAX == 8

\* Bound: number of pids on the host.
MaxRtProcs == 2

RtProcs == 1..MaxRtProcs
NoCheck == 0
RtAges == {0, DEFAULT_MIN_DURATION}
RtCaps == {0, 1}

\* What the sampler reads about a pid when it looks at it (/proc changes under
\* it: processes start, exec and age). class: the maps do not match the
\* runtime's regex; they match; they match but py-spy excludes the process (own
\* pid, blacklisted command line, pypy, embedded python); the pid is listed in
\* python_pyspy_process. age_known: create_time() could be read.
RtClasses == {"no_match", "match", "match_excluded", "forced"}

Readings == [class : RtClasses, age : RtAges, age_known : BOOLEAN]

\* What a probe of a spawned process can read: python_pyspy_process is only
\* looked at by the selection, a listed pid reads like any other there.
ProbeReadings == {r \in Readings : r.class # "forced"}

InitRt ==
    /\ rt_profiler = "none"
    /\ rt_min_duration = 0
    /\ rt_cap = 0
    /\ rt_phase = "idle"
    /\ rt_spawning = FALSE
    /\ preexisting_pids = {}
    /\ rt_workers = {}
    /\ rt_spawned_workers = {}
    /\ rt_sched = [p \in RtProcs |-> 0]
    /\ rt_profiled = {}
    /\ rt_young_profiled = FALSE
    /\ rt_check = NoCheck
    /\ rt_double_profiled = FALSE

\* PySpyProfiler.__init__ / RbSpyProfiler.__init__.
RtConstruct(profiler, min_duration, cap) ==
    /\ rt_profiler = "none"
    /\ rt_profiler' = profiler
    /\ rt_min_duration' = min_duration
    /\ rt_cap' = cap
    /\ UNCHANGED <<rt_phase, rt_spawning, preexisting_pids, rt_workers,
                   rt_spawned_workers, rt_sched, rt_profiled, rt_young_profiled,
                   rt_check, rt_double_profiled>>

\* pgrep_maps / search_proc_maps with the runtime's regex.
MatchesMaps(r) == r.class \in {"match", "match_excluded"}

\* The process is younger than min_duration.
IsYoung(r) == r.age < rt_min_duration

\* The age test of _should_skip_process (python.py lines 446-452, ruby.py
\* lines 200-206): an age that cannot be read is logged and the test passed
\* over.
TooYoung(r) == r.age_known /\ r.age < rt_min_duration

\* PySpyProfiler._should_skip_process (python.py lines 440-470) and
\* RbSpyProfiler._should_skip_process (ruby.py lines 197-208).
should_skip_process(r) ==
    IF rt_profiler = "pyspy"
    THEN TooYoung(r) \/ r.class = "match_excluded"
    ELSE TooYoung(r)

\* _should_profile_process (python.py lines 435-438, ruby.py lines 194-195).
should_profile_process(r) ==
    MatchesMaps(r) /\ ~should_skip_process(r)

\* _select_processes_to_profile: python.py lines 416-433 filter with
\* _should_skip_process and add the pids of python_pyspy_process; ruby.py
\* lines 191-192 return pgrep_maps(...) as it is.
select_processes_to_profile(reading) ==
    IF rt_profiler = "pyspy"
    THEN {p \in RtProcs : MatchesMaps(reading[p]) /\ ~should_skip_process(reading[p])}
         \cup {p \in RtProcs : reading[p].class = "forced"}
    ELSE {p \in RtProcs : MatchesMaps(reading[p])}

\* _get_top_processes_by_cpu (profiler_base.py lines 199-241): the sets it can
\* return; the CPU readings decide which max_processes of them are kept.
get_top_processes_by_cpu(processes, max_processes) ==
    IF max_processes <= 0 \/ Cardinality(processes) <= max_processes
    THEN {processes}
    ELSE {S \in SUBSET processes : Cardinality(S) = max_processes}

\* ProcessProfilerBase.snapshot up to the submits (profiler_base.py lines
\* 261-289) with profiler_state.processes_to_profile None, including
\* _start_profiling_spawning (lines 333-340). gone: selected processes whose
\* process_comm raises NoSuchProcess.
RtSnapshotBegin ==
    /\ rt_profiler # "none"
    /\ rt_phase = "idle"
    /\ \E reading \in [RtProcs -> Readings] :
         \E top \in (IF rt_cap > 0
                     THEN get_top_processes_by_cpu(select_processes_to_profile(reading),
                                                   rt_cap)
                     ELSE {select_processes_to_profile(reading)}) :
           \E gone \in SUBSET top :
              /\ preexisting_pids' = top
              /\ rt_workers' = top \ gone
              /\ rt_profiled' = top \ gone
              /\ rt_young_profiled' = (\E p \in top \ gone : IsYoung(reading[p]))
    /\ rt_spawning' = TRUE
    /\ rt_phase' = "profiling"
    /\ UNCHANGED <<rtConfig, rt_spawned_workers, rt_sched, rt_check, rt_double_profiled>>

\* A worker's _profile_process returns.
RtWorkerDone(p) ==
    /\ \/ /\ p \in rt_workers
          /\ rt_workers' = rt_workers \ {p}
          /\ UNCHANGED rt_spawned_workers
       \/ /\ p \in rt_spawned_workers
          /\ rt_spawned_workers' = rt_spawned_workers \ {p}
          /\ UNCHANGED rt_workers
    /\ UNCHANGED <<rtConfig, rt_phase, rt_spawning, preexisting_pids, rt_sched,
                   rt_profiled, rt_young_profiled,
                   rt_check, rt_double_profiled>>

\* _proc_exec_callback (profiler_base.py lines 353-363): a process called exec.
RtProcExec(p) ==
    /\ rt_spawning
    /\ rt_sched[p] = 0
    /\ rt_sched' = [rt_sched EXCEPT ![p] = BACKOFF_INIT]
    /\ UNCHANGED <<rtConfig, rt_phase, rt_spawning, preexisting_pids, rt_workers,
                   rt_spawned_workers, rt_profiled, rt_young_profiled,
                   rt_check, rt_double_profiled>>

\* self._threads.submit(self._profile_process, ...) (profiler_base.py line
\* 444); the executor has max_workers=999 (line 338). Nothing looks whether
\* the pid already has a future in self._futures.
SubmitSpawned(p, r) ==
    /\ rt_spawned_workers' = rt_spawned_workers \cup {p}
    /\ rt_profiled' = rt_profiled \cup {p}
    /\ rt_young_profiled' = (rt_young_profiled \/ IsYoung(r))
    /\ rt_double_profiled' = (rt_double_profiled \/ p \in rt_profiled)

\* _check_process run by the scheduler thread (profiler_base.py lines
\* 422-451), first test failed: spawn tracking is off, the process is gone, or
\* it is a child of the agent.
RtCheckDrops(p) ==
    /\ rt_check = NoCheck
    /\ rt_sched[p] # 0
    /\ rt_sched' = [rt_sched EXCEPT ![p] = 0]
    /\ UNCHANGED <<rtConfig, rt_phase, rt_spawning, preexisting_pids, rt_workers,
                   rt_spawned_workers, rt_profiled, rt_young_profiled,
                   rt_check, rt_double_profiled>>

\* _check_process, first test passed (line 424): _is_profiling_spawning was
\* read true, without the lock. The event has left the scheduler's queue; its
\* interval is kept in rt_sched.
RtCheckEnter(p) ==
    /\ rt_check = NoCheck
    /\ rt_sched[p] # 0
    /\ rt_spawning
    /\ rt_check' = p
    /\ UNCHANGED <<rtConfig, rt_phase, rt_spawning, preexisting_pids, rt_workers,
                   rt_spawned_workers, rt_sched, rt_profiled, rt_young_profiled,
                   rt_double_profiled>>

\* The else branch of _check_process (lines 448-451): the next interval, 0
\* when there is no further probe.
Backoff(interval) == IF interval < BACKOFF_MAX THEN interval * 2 ELSE 0

\* _check_process past the first test (lines 427-451): the probe
\* _should_profile_process, then under _submit_lock the second look at
\* _is_profiling_spawning and the submit, or the next probe is scheduled.
\* r: what is read about the process now; expired: the cycle's duration is
\* over (duration <= 0).
RtCheckProcess(r, expired) ==
    /\ rt_check # NoCheck
    /\ IF should_profile_process(r)
       THEN /\ rt_sched' = [rt_sched EXCEPT ![rt_check] = 0]
            /\ IF ~rt_spawning \/ rt_check \in preexisting_pids \/ expired
               THEN UNCHANGED <<rt_spawned_workers, rt_profiled, rt_young_profiled,
                                rt_double_profiled>>
               ELSE SubmitSpawned(rt_check, r)
       ELSE /\ ~expired
            /\ rt_sched' = [rt_sched EXCEPT ![rt_check] = Backoff(@)]
            /\ UNCHANGED <<rt_spawned_workers, rt_profiled, rt_young_profiled,
                           rt_double_profiled>>
    /\ rt_check' = NoCheck
    /\ UNCHANGED <<rtConfig, rt_phase, rt_spawning, preexisting_pids, rt_workers>>

\* _wait_for_profiles(futures) of the snapshot's own executor returned
\* (profiler_base.py line 291).
RtWaitPreexisting ==
    /\ rt_phase = "profiling"
    /\ rt_workers = {}
    /\ rt_phase' = "waiting"
    /\ UNCHANGED <<rtConfig, rt_spawning, preexisting_pids, rt_workers,
                   rt_spawned_workers, rt_sched, rt_profiled, rt_young_profiled,
                   rt_check, rt_double_profiled>>

\* _stop_profiling_spawning up to threads.shutdown() (profiler_base.py lines
\* 342-349): no more work is accepted.
RtStopSpawning ==
    /\ rt_phase = "waiting"
    /\ rt_spawning' = FALSE
    /\ rt_phase' = "shutdown"
    /\ UNCHANGED <<rtConfig, preexisting_pids, rt_workers, rt_spawned_workers,
                   rt_sched, rt_profiled, rt_young_profiled,
                   rt_check, rt_double_profiled>>

\* threads.shutdown() returned, _clear_sched cancels the events in the queue,
\* results merged (profiler_base.py lines 350-351 and 404-411). The event the
\* scheduler thread is running is not in the queue.
RtSnapshotEnd ==
    /\ rt_phase = "shutdown"
    /\ rt_spawned_workers = {}
    /\ preexisting_pids' = {}
    /\ rt_sched' = [p \in RtProcs |-> IF p = rt_check THEN rt_sched[p] ELSE 0]
    /\ rt_profiled' = {}
    /\ rt_young_profiled' = FALSE
    /\ rt_double_profiled' = FALSE
    /\ rt_phase' = "idle"
    /\ UNCHANGED <<rtConfig, rt_spawning, rt_workers, rt_spawned_workers, rt_check>>

NextRt ==
    \/ \E profiler \in {"pyspy", "rbspy"}, min_duration \in {0, DEFAULT_MIN_DURATION},
          cap \in RtCaps : RtConstruct(profiler, min_duration, cap)
    \/ RtSnapshotBegin
    \/ \E p \in RtProcs : RtWorkerDone(p)
    \/ \E p \in RtProcs : RtProcExec(p)
    \/ \E p \in RtProcs : RtCheckDrops(p)
    \/ \E p \in RtProcs : RtCheckEnter(p)
    \/ \E r \in ProbeReadings, expired \in BOOLEAN : RtCheckProcess(r, expired)
    \/ RtWaitPreexisting
    \/ RtStopSpawning
    \/ RtSnapshotEnd

(***************************************************************************)
(* SparkController: the registry of Spark processes (gprofiler/spark.py)   *)
(***************************************************************************)
VARIABLES
    spark_registry,     \* self._registry: per pid NoEntry or [app_id, last_heartbeat]
    allowed_apps,       \* self._allowed_apps
    spark_now,          \* time.time()
    cleanup_pc,         \* _run_cleanup: "wait" (between passes) or "pass" (now was read)
    cleanup_now,        \* the local now of _run_cleanup
    to_remove,          \* the local to_remove of _run_cleanup, as a set
    filter_pc,          \* filter_processes: "idle" or "snapshot" (allowed was copied)
    filter_processes_arg, \* the argument processes, as a sequence of pids
    filter_allowed,     \* the local allowed ({} outside a call)
    kept_processes      \* the list filter_processes returned last

varsSpark == <<spark_registry, allowed_apps, spark_now, cleanup_pc, cleanup_now, to_remove,
               filter_pc, filter_processes_arg, filter_allowed, kept_processes>>

STALE_THRESHOLD_S == 300

\* Bounds: pids that send messages, clock ticks and their length, length of the
\* list given to filter_processes.
MaxSparkPids == 2
MaxSparkTicks == 2
SparkClockStep == 300
MaxFilterLen == 2

SparkPids == 1..MaxSparkPids
\* The pids filter_processes is asked about: one of them never sends a message.
ProcessPids == 1..(MaxSparkPids + 1)
SparkApps == {"app-allowed", "app-denied"}
NoEntry == [app_id |-> "none", last_heartbeat |-> 0 - 1]
Entry(app_id, t) == [app_id |-> app_id, last_heartbeat |-> t]

\* The lists of processes given to filter_processes: distinct pids in any order.
ProcessLists ==
    {l \in UNION {[1..n -> ProcessPids] : n \in 0..MaxFilterLen} :
        \A i, j \in 1..Len(l) : i # j => l[i] # l[j]}

InitSpark ==
    /\ spark_registry = [p \in SparkPids |-> NoEntry]
    /\ allowed_apps = {}
    /\ spark_now = 0
    /\ cleanup_pc = "wait"
    /\ cleanup_now = 0
    /\ to_remove = {}
    /\ filter_pc = "idle"
    /\ filter_processes_arg = <<>>
    /\ filter_allowed = {}
    /\ kept_processes = <<>>

\* pid in self._registry
Registered(reg, pid) == pid \in DOMAIN reg /\ reg[pid] # NoEntry

\* _process_message (lines 96-128). A message without pid or app id (pid 0
\* here) is ignored. thread_info goes to _update_threads (lines 130-148), which
\* creates the entry if the pid is unknown and otherwise leaves last_heartbeat
\* alone. A heartbeat writes app_id and last_heartbeat under _registry_lock.
ProcessMessage(msg_type, pid, app_id) ==
    /\ IF pid = 0
       THEN UNCHANGED spark_registry
       ELSE IF msg_type = "thread_info"
       THEN spark_registry' =
               IF Registered(spark_registry, pid) THEN spark_registry
               ELSE [spark_registry EXCEPT ![pid] = Entry(app_id, spark_now)]
       ELSE spark_registry' = [spark_registry EXCEPT ![pid] = Entry(app_id, spark_now)]
    /\ UNCHANGED <<allowed_apps, spark_now, cleanup_pc, cleanup_now, to_remove, filter_pc,
                   filter_processes_arg, filter_allowed, kept_processes>>

\* _run_backend_poller (lines 150-159): the set the collector returned
\* replaces _allowed_apps.
PollAllowedApps(allowed) ==
    /\ allowed_apps' = allowed
    /\ UNCHANGED <<spark_registry, spark_now, cleanup_pc, cleanup_now, to_remove, filter_pc,
                   filter_processes_arg, filter_allowed, kept_processes>>

\* _run_cleanup line 163: now = time.time(), read before the lock is taken.
CleanupReadNow ==
    /\ cleanup_pc = "wait"
    /\ cleanup_now' = spark_now
    /\ to_remove' = {}
    /\ cleanup_pc' = "pass"
    /\ UNCHANGED <<spark_registry, allowed_apps, spark_now, filter_pc, filter_processes_arg,
                   filter_allowed, kept_processes>>

\* Mutant of IsStale: an entry exactly at the threshold counts as stale.
MutIsStaleAtThreshold(info, now) == now - info.last_heartbeat >= STALE_THRESHOLD_S

\* now - info["last_heartbeat"] > self.STALE_THRESHOLD_S (line 167)
IsStale(info, now) == now - info.last_heartbeat > STALE_THRESHOLD_S

\* _run_cleanup lines 165-171: under _registry_lock, the stale pids are
\* collected and then deleted.
CleanupPass ==
    /\ cleanup_pc = "pass"
    /\ LET stale == {p \in SparkPids : Registered(spark_registry, p)
                                        /\ IsStale(spark_registry[p], cleanup_now)}
       IN /\ to_remove' = stale
          /\ spark_registry' = [p \in SparkPids |->
                                  IF p \in stale THEN NoEntry ELSE spark_registry[p]]
    /\ cleanup_pc' = "wait"
    /\ UNCHANGED <<allowed_apps, spark_now, cleanup_now, filter_pc, filter_processes_arg,
                   filter_allowed, kept_processes>>

\* filter_processes lines 179-181: the copy of _allowed_apps. The list of the
\* previous call is gone; this call's kept_processes starts empty (line 185).
FilterCopyAllowed(processes) ==
    /\ filter_pc = "idle"
    /\ filter_processes_arg' = processes
    /\ filter_allowed' = allowed_apps
    /\ kept_processes' = <<>>
    /\ filter_pc' = "snapshot"
    /\ UNCHANGED <<spark_registry, allowed_apps, spark_now, cleanup_pc, cleanup_now,
                   to_remove>>

\* Mutant of FilterKeeps: a pid that is not in the registry is dropped.
MutFilterKeepsRegisteredOnly(pid, registry_snapshot, allowed) ==
    Registered(registry_snapshot, pid) /\ registry_snapshot[pid].app_id \in allowed

\* filter_processes lines 188-194: whether p is appended to kept_processes.
FilterKeeps(pid, registry_snapshot, allowed) ==
    IF Registered(registry_snapshot, pid)
    THEN registry_snapshot[pid].app_id \in allowed
    ELSE TRUE

\* filter_processes lines 185-197: the loop over processes, appending to
\* kept_processes.
RECURSIVE FilterLoop(_, _, _, _)
FilterLoop(processes, registry_snapshot, allowed, kept) ==
    IF processes = <<>> THEN kept
    ELSE FilterLoop(Tail(processes), registry_snapshot, allowed,
                    IF FilterKeeps(Head(processes), registry_snapshot, allowed)
                    THEN Append(kept, Head(processes)) ELSE kept)

\* filter_processes lines 183-199: the copy of _registry under _registry_lock,
\* the loop over that copy, and the return.
FilterSnapshot ==
    /\ filter_pc = "snapshot"
    /\ kept_processes' = FilterLoop(filter_processes_arg, spark_registry, filter_allowed, <<>>)
    /\ filter_allowed' = {}
    /\ filter_pc' = "idle"
    /\ UNCHANGED <<spark_registry, allowed_apps, spark_now, cleanup_pc, cleanup_now,
                   to_remove, filter_processes_arg>>

\* time.time() advances.
SparkTick ==
    /\ spark_now < MaxSparkTicks * SparkClockStep
    /\ spark_now' = spark_now + SparkClockStep
    /\ UNCHANGED <<spark_registry, allowed_apps, cleanup_pc, cleanup_now, to_remove,
                   filter_pc, filter_processes_arg, filter_allowed, kept_processes>>

\* The server thread's handlers and the poller thread.
SparkServer ==
    \/ \E msg_type \in {"heartbeat", "thread_info"}, pid \in {0} \cup SparkPids,
          app_id \in SparkApps : ProcessMessage(msg_type, pid, app_id)
    \/ \E allowed \in SUBSET SparkApps : PollAllowedApps(allowed)

\* The server, the poller, the cleanup thread and the clock.
NextSpark ==
    \/ SparkServer
    \/ CleanupReadNow
    \/ CleanupPass
    \/ SparkTick

\* The server and the poller with a caller of filter_processes.
NextSparkFilter ==
    \/ SparkServer
    \/ \E processes \in ProcessLists : FilterCopyAllowed(processes)
    \/ FilterSnapshot

(***************************************************************************)
(* The collapsed-stack parser (gprofiler/utils/collapsed_format.py).       *)
(* A str is a sequence of one-character strings; "\n" is the newline.      *)
(***************************************************************************)
VARIABLES
    cf_input,       \* how the text given to the parser was put together, line by line
    collapsed,      \* the argument collapsed of parse_one_collapsed
    cf_pc,          \* "input" (before the call), "parsed", "emitted", "reparsed"
    stacks,         \* the Counter returned: <<[stack, count], ...>> in insertion order
    cf_emitted,     \* the text emitted from stacks
    cf_reparsed     \* the Counter returned for the emitted text

varsCf == <<cf_input, collapsed, cf_pc, stacks, cf_emitted, cf_reparsed>>

\* Bound: number of lines of the input.
MaxLines == 2

Concat(s, t) == s \o t

\* The count tokens of well-formed sample lines, with the number each denotes.
GoodCounts ==
    {[text |-> <<"0">>, value |-> 0], [text |-> <<"1">>, value |-> 1],
     [text |-> <<"1", "2">>, value |-> 12]}

\* The stacks of well-formed sample lines: plain, with frames, with a space
\* inside a frame name, and followed by a second space before the count.
GoodStacks == {<<"a">>, <<"a", ";", "b">>, <<"a", " ", "b">>, <<"a", " ">>}

\* The lines an input is put together from. wellformed: the line is empty,
\* starts with '#', or is '<stack> <count>' with a non-negative integer count;
\* count: the count the line carries.
InputLines ==
    {[text |-> <<>>, wellformed |-> TRUE, count |-> 0],
     [text |-> <<" ">>, wellformed |-> TRUE, count |-> 0],
     [text |-> <<"#", "a">>, wellformed |-> TRUE, count |-> 0],
     [text |-> <<" ", "#", " ", "1">>, wellformed |-> TRUE, count |-> 0],
     [text |-> <<"a">>, wellformed |-> FALSE, count |-> 0],
     [text |-> <<"a", " ", "x">>, wellformed |-> FALSE, count |-> 0],
     [text |-> <<"a", " ", "-", "1">>, wellformed |-> FALSE, count |-> 0],
     [text |-> <<" ", "1">>, wellformed |-> FALSE, count |-> 0]}
    \cup {[text |-> Concat(Concat(s, <<" ">>), c.text), wellformed |-> TRUE, count |-> c.value] :
            s \in GoodStacks, c \in GoodCounts}
    \cup {[text |-> Concat(<<" ">>, Concat(Concat(Concat(s, <<" ">>), c.text), <<" ">>)),
           wellformed |-> TRUE, count |-> c.value] :
            s \in GoodStacks, c \in GoodCounts}

CollapsedInputs == UNION {[1..n -> InputLines] : n \in 0..MaxLines}

\* The text of an input: its lines, each ended by a newline.
RECURSIVE TextOf(_)
TextOf(lines) ==
    IF lines = <<>> THEN <<>>
    ELSE Concat(Concat(Head(lines).text, <<"\n">>), TextOf(Tail(lines)))

\* str.splitlines() (line 22), for the only line boundary that occurs here.
RECURSIVE splitlines(_, _)
splitlines(s, cur) ==
    IF s = <<>> THEN (IF cur = <<>> THEN <<>> ELSE <<cur>>)
    ELSE IF Head(s) = "\n" THEN <<cur>> \o splitlines(Tail(s), <<>>)
    ELSE splitlines(Tail(s), Append(cur, Head(s)))

\* str.strip() (line 24): leading and trailing whitespace removed.
RECURSIVE lstrip(_)
lstrip(s) == IF s # <<>> /\ Head(s) = " " THEN lstrip(Tail(s)) ELSE s

RECURSIVE rstrip(_)
rstrip(s) ==
    IF s # <<>> /\ s[Len(s)] = " " THEN rstrip(SubSeq(s, 1, Len(s) - 1)) ELSE s

strip(s) == rstrip(lstrip(s))

\* line.rpartition(" ") (line 32): <<stack, count_str>>, split at the last
\* space; without any space everything is in count_str.
rpartition(line) ==
    LET spaces == {i \in 1..Len(line) : line[i] = " "}
    IN IF spaces = {} THEN <<<<>>, line>>
       ELSE LET i == CHOOSE k \in spaces : \A j \in spaces : j <= k
            IN <<SubSeq(line, 1, i - 1), SubSeq(line, i + 1, Len(line))>>

DigitValue == ("0" :> 0) @@ ("1" :> 1) @@ ("2" :> 2) @@ ("3" :> 3) @@ ("4" :> 4) @@
              ("5" :> 5) @@ ("6" :> 6) @@ ("7" :> 7) @@ ("8" :> 8) @@ ("9" :> 9)

AllDigits(s) == s # <<>> /\ \A i \in 1..Len(s) : s[i] \in DOMAIN DigitValue

\* int(count_str) (line 40) does not raise ValueError.
IsIntLiteral(s) ==
    IF s # <<>> /\ Head(s) = "-" THEN AllDigits(Tail(s)) ELSE AllDigits(s)

RECURSIVE DigitsToInt(_, _)
DigitsToInt(s, acc) ==
    IF s = <<>> THEN acc ELSE DigitsToInt(Tail(s), 10 * acc + DigitValue[Head(s)])

\* int(count_str) (line 40)
int(s) == IF Head(s) = "-" THEN 0 - DigitsToInt(Tail(s), 0) ELSE DigitsToInt(s, 0)

\* Mutant of CounterAdd: the count replaces the one already there.
MutCounterAddOverwrites(counter, key, n) ==
    IF \E i \in 1..Len(counter) : counter[i].stack = key
    THEN [i \in 1..Len(counter) |->
            IF counter[i].stack = key THEN [stack |-> key, count |-> n] ELSE counter[i]]
    ELSE Append(counter, [stack |-> key, count |-> n])

\* stacks[stack] += count (lines 45-48, add_comm is None)
CounterAdd(counter, key, n) ==
    IF \E i \in 1..Len(counter) : counter[i].stack = key
    THEN [i \in 1..Len(counter) |->
            IF counter[i].stack = key
            THEN [stack |-> key, count |-> counter[i].count + n] ELSE counter[i]]
    ELSE Append(counter, [stack |-> key, count |-> n])

\* The body of the for loop (lines 23-54) for one line: empty lines and
\* comments are skipped, a line without stack or count, with a count that is
\* no integer, or with a negative count goes to bad_lines.
ParseLine(counter, raw) ==
    LET line == strip(raw)
        stack == rpartition(line)[1]
        count_str == rpartition(line)[2]
    IN IF line = <<>> THEN counter
       ELSE IF Head(line) = "#" THEN counter
       ELSE IF stack = <<>> \/ count_str = <<>> THEN counter
       ELSE IF ~IsIntLiteral(count_str) THEN counter
       ELSE IF int(count_str) < 0 THEN counter
       ELSE CounterAdd(counter, stack, int(count_str))

RECURSIVE ParseLines(_, _)
ParseLines(counter, lines) ==
    IF lines = <<>> THEN counter
    ELSE ParseLines(ParseLine(counter, Head(lines)), Tail(lines))

\* parse_one_collapsed(collapsed) (lines 11-74)
parse_one_collapsed(text) == ParseLines(<<>>, splitlines(text, <<>>))

RECURSIVE IntToDigits(_)
IntToDigits(n) ==
    LET d == CHOOSE c \in DOMAIN DigitValue : DigitValue[c] = n % 10
    IN IF n < 10 THEN <<d>> ELSE Append(IntToDigits(n \div 10), d)

\* The map written out as '<stack> <count>' lines, in the order of its items.
RECURSIVE Emit(_)
Emit(counter) ==
    IF counter = <<>> THEN <<>>
    ELSE Concat(Concat(Concat(Head(counter).stack, <<" ">>),
                       Concat(IntToDigits(Head(counter).count), <<"\n">>)),
                Emit(Tail(counter)))

InitCf ==
    /\ cf_input = <<>>
    /\ collapsed = <<>>
    /\ cf_pc = "input"
    /\ stacks = <<>>
    /\ cf_emitted = <<>>
    /\ cf_reparsed = <<>>

\* stacks = parse_one_collapsed(collapsed), called with the text of lines
CfParse(lines) ==
    /\ cf_pc = "input"
    /\ cf_input' = lines
    /\ collapsed' = TextOf(lines)
    /\ stacks' = parse_one_collapsed(collapsed')
    /\ cf_pc' = "parsed"
    /\ UNCHANGED <<cf_emitted, cf_reparsed>>

\* The map is written out.
CfEmit ==
    /\ cf_pc = "parsed"
    /\ cf_emitted' = Emit(stacks)
    /\ cf_pc' = "emitted"
    /\ UNCHANGED <<cf_input, collapsed, stacks, cf_reparsed>>

\* parse_one_collapsed on what was written out.
CfReparse ==
    /\ cf_pc = "emitted"
    /\ cf_reparsed' = parse_one_collapsed(cf_emitted)
    /\ cf_pc' = "reparsed"
    /\ UNCHANGED <<cf_input, collapsed, stacks, cf_emitted>>

NextCf ==
    \/ /\ cf_pc = "input"
       /\ \E lines \in CollapsedInputs : CfParse(lines)
    \/ CfEmit
    \/ CfReparse

(***************************************************************************)
(* The perf record command line (gprofiler/utils/perf_process.py,          *)
(* PerfProcess.__init__ and _get_perf_cmd). Every argument is a str, a     *)
(* sequence of one-character strings.                                      *)
(***************************************************************************)
VARIABLES
    cmd_pc,             \* "new", "constructed" (__init__ is over), "built" (_get_perf_cmd returned)
    top_cgroups,        \* what get_top_cgroup_names_for_perf returned to __init__
    cmd_extra_args,     \* self._extra_args
    cmd_pid_args,       \* self._pid_args
    cmd_cgroup_args,    \* self._cgroup_args
    cmd_inject_jit,     \* self._inject_jit
    perf_cmd            \* the list _get_perf_cmd returned

varsCmd == <<cmd_pc, top_cgroups, cmd_extra_args, cmd_pid_args, cmd_cgroup_args,
             cmd_inject_jit, perf_cmd>>

\* Bound: number of cgroups the enumeration returns.
MaxCgroupNames == 3

CgroupNames == {<<"a">>, <<"b", "/", "c">>, <<"d">>}

\* The lists of distinct names the enumeration may return.
TopCgroupLists ==
    {l \in UNION {[1..n -> CgroupNames] : n \in 0..MaxCgroupNames} :
        \A i, j \in 1..Len(l) : i # j => l[i] # l[j]}

\* SupportedPerfEvent.perf_extra_args (perf.py lines 65-68): nothing for the
\* default event, -e <event> for the others.
ExtraArgs ==
    {<<>>, <<<<"-", "e">>, <<"c", "p", "u", "-", "c", "l", "o", "c", "k">>>>, <<<<"-", "e">>, <<"t", "a", "s", "k", "-", "c", "l", "o", "c", "k">>>>}

\* ",".join(names)
RECURSIVE join(_)
join(names) ==
    IF names = <<>> THEN <<>>
    ELSE IF Len(names) = 1 THEN names[1]
    ELSE names[1] \o <<",">> \o join(Tail(names))

\* len(s.split(","))
NumSplit(s) == 1 + Cardinality({i \in 1..Len(s) : s[i] = ","})

\* extra_args.extend(["-e", "cycles"]) done n times on an empty list
RECURSIVE CyclesEvents(_)
CyclesEvents(n) == IF n = 0 THEN <<>> ELSE <<<<"-", "e">>, <<"c", "y", "c", "l", "e", "s">>>> \o CyclesEvents(n - 1)

InitCmd ==
    /\ cmd_pc = "new"
    /\ top_cgroups = <<>>
    /\ cmd_extra_args = <<>>
    /\ cmd_pid_args = <<>>
    /\ cmd_cgroup_args = <<>>
    /\ cmd_inject_jit = FALSE
    /\ perf_cmd = <<>>

\* PerfProcess.__init__ (lines 83-137) when it does not raise: on the cgroup
\* branch with a non-empty list of cgroups, -a and -G <names joined by ",">;
\* otherwise --pid <pids> or -a.
CmdConstruct(use_cgroup_branch, cgroups, extra_args, with_pids, inject_jit) ==
    /\ cmd_pc = "new"
    /\ use_cgroup_branch => cgroups # <<>>
    /\ ~use_cgroup_branch => cgroups = <<>>
    /\ top_cgroups' = cgroups
    /\ cmd_extra_args' = extra_args
    /\ cmd_inject_jit' = inject_jit
    /\ IF use_cgroup_branch
       THEN /\ cmd_pid_args' = <<<<"-", "a">>>>
            /\ cmd_cgroup_args' = <<<<"-", "G">>, join(cgroups)>>
       ELSE /\ cmd_pid_args' = IF with_pids THEN <<<<"-", "-", "p", "i", "d">>, <<"1", ",", "2">>>> ELSE <<<<"-", "a">>>>
            /\ cmd_cgroup_args' = <<>>
    /\ cmd_pc' = "constructed"
    /\ perf_cmd' = <<>>

\* The local extra_args of _get_perf_cmd (lines 147-164): with cgroups and no
\* configured extra arguments, one "-e cycles" per cgroup named after -G;
\* in every other case the configured extra arguments as they are.
EventArgs ==
    IF cmd_cgroup_args # <<>> /\ cmd_extra_args = <<>>
    THEN LET g == {i \in 1..Len(cmd_cgroup_args) :
                      cmd_cgroup_args[i] = <<"-", "G">> /\ i + 1 <= Len(cmd_cgroup_args)}
         IN IF g # {} /\ cmd_cgroup_args[(CHOOSE i \in g : \A j \in g : i <= j) + 1] # <<>>
            THEN CyclesEvents(NumSplit(cmd_cgroup_args[(CHOOSE i \in g : \A j \in g : i <= j) + 1]))
            ELSE <<<<"-", "e">>, <<"c", "y", "c", "l", "e", "s">>>>
    ELSE cmd_extra_args

\* _get_perf_cmd (lines 143-188)
CmdGetPerfCmd ==
    /\ cmd_pc = "constructed"
    /\ perf_cmd' = <<<<"p", "e", "r", "f">>, <<"r", "e", "c", "o", "r", "d">>, <<"-", "F">>, <<"1", "1">>, <<"-", "g">>, <<"-", "o">>, <<"o", "u", "t">>, <<"-", "-", "s", "w", "i", "t", "c", "h", "-", "o", "u", "t", "p", "u", "t", "=", "1", "5", "s", ",", "s", "i", "g", "n", "a", "l">>, <<"-", "-", "s", "w", "i", "t", "c", "h", "-", "m", "a", "x", "-", "f", "i", "l", "e", "s", "=", "1">>,
                    <<"-", "m">>, <<"1", "2", "9">>>>
                   \o EventArgs \o cmd_pid_args \o cmd_cgroup_args
                   \o (IF cmd_inject_jit THEN <<<<"-", "k">>, <<"1">>>> ELSE <<>>)
    /\ cmd_pc' = "built"
    /\ UNCHANGED <<top_cgroups, cmd_extra_args, cmd_pid_args, cmd_cgroup_args, cmd_inject_jit>>

\* The object is dropped and another one is made.
CmdDiscard ==
    /\ cmd_pc = "built"
    /\ cmd_pc' = "new"
    /\ top_cgroups' = <<>>
    /\ cmd_extra_args' = <<>>
    /\ cmd_pid_args' = <<>>
    /\ cmd_cgroup_args' = <<>>
    /\ cmd_inject_jit' = FALSE
    /\ perf_cmd' = <<>>

NextCmd ==
    \/ /\ cmd_pc = "new"
       /\ \E b \in BOOLEAN, cgroups \in TopCgroupLists, extra_args \in ExtraArgs,
             with_pids \in BOOLEAN, inject_jit \in BOOLEAN :
               CmdConstruct(b, cgroups, extra_args, with_pids, inject_jit)
    \/ CmdGetPerfCmd
    \/ CmdDiscard

(***************************************************************************)
(* The profiler arguments made from a start command                        *)
(* (gprofiler/heartbeat.py, DynamicGProfilerManager._create_profiler_args) *)
(***************************************************************************)
VARIABLES
    args_pc,            \* "idle", or "returned" after _create_profiler_args
    base_args,          \* the python_mode and perf_mode of self.base_args
    profiler_configs,   \* combined_config["profiler_configs"]; Absent for a missing key
    new_args            \* the Namespace returned

varsArgs == <<args_pc, base_args, profiler_configs, new_args>>

\* A key the map does not have.
Absent == "<absent>"

\* possible_modes of the python profiler (python.py line 563), "py-spy" being
\* another spelling of "pyspy".
PythonModes == {"auto", "pyperf", "pyspy", "disabled"}

BaseArgs == [python_mode : PythonModes, perf_mode : {"fp", "disabled"}]

\* The maps of a command: each of the keys is missing, has one of the values
\* the code names, or has some other value.
ProfilerConfigs ==
    [perf : {Absent, "enabled_restricted", "enabled_aggressive", "disabled"},
     pyperf : {Absent, "enabled", "disabled", "other"},
     pyspy : {Absent, "enabled_fallback", "enabled", "disabled", "other"}]

NoArgs == [python_mode |-> "none", perf_mode |-> "none"]

InitArgs ==
    /\ args_pc = "idle"
    /\ base_args = [python_mode |-> "auto", perf_mode |-> "fp"]
    /\ profiler_configs = [perf |-> Absent, pyperf |-> Absent, pyspy |-> Absent]
    /\ new_args = NoArgs

\* dict.get(key, default)
Get(map, key, default) == IF map[key] = Absent THEN default ELSE map[key]

\* `if profiler_configs:` (line 422): the map has a key.
NonEmpty(map) == \E k \in DOMAIN map : map[k] # Absent

\* Lines 426-436: the perf entry.
PerfModeOf(base, configs) ==
    IF Get(configs, "perf", "enabled_restricted") = "disabled" THEN "disabled"
    ELSE base.perf_mode

\* Lines 439-446: python_mode after the pyperf entry was handled.
AfterPyperf(base, configs) ==
    LET pyperf_config == Get(configs, "pyperf", "enabled")
    IN IF pyperf_config = "enabled" THEN "pyperf"
       ELSE IF pyperf_config = "disabled" THEN "disabled"
       ELSE base.python_mode

\* Lines 449-458: python_mode after the pyspy entry was handled.
AfterPyspy(base, configs) ==
    LET pyperf_config == Get(configs, "pyperf", "enabled")
        pyspy_config == Get(configs, "pyspy", "enabled_fallback")
    IN IF pyspy_config = "enabled_fallback" THEN "auto"
       ELSE IF pyspy_config = "enabled" THEN "pyspy"
       ELSE IF pyspy_config = "disabled" /\ pyperf_config = "disabled" THEN "disabled"
       ELSE AfterPyperf(base, configs)

\* _create_profiler_args (lines 377-528), for a command that targets this
\* host: a copy of base_args, changed by the entries of profiler_configs
\* when the map is not empty.
CreateProfilerArgs(base, configs) ==
    /\ args_pc = "idle"
    /\ base_args' = base
    /\ profiler_configs' = configs
    /\ new_args' = IF NonEmpty(configs)
                   THEN [python_mode |-> AfterPyspy(base, configs),
                         perf_mode |-> PerfModeOf(base, configs)]
                   ELSE [python_mode |-> base.python_mode, perf_mode |-> base.perf_mode]
    /\ args_pc' = "returned"

\* The next command.
ArgsNext ==
    /\ args_pc = "returned"
    /\ args_pc' = "idle"
    /\ UNCHANGED <<base_args, profiler_configs, new_args>>

NextArgs ==
    \/ /\ args_pc = "idle"
       /\ \E base \in BaseArgs, configs \in ProfilerConfigs : CreateProfilerArgs(base, configs)
    \/ ArgsNext

(***************************************************************************)
(* The choice of the cgroups perf is scoped to                             *)
(* (gprofiler/utils/cgroup_utils.py, get_top_cgroup_names_for_perf)        *)
(***************************************************************************)
VARIABLES
    cg_pc,              \* "idle", or "returned" after get_top_cgroup_names_for_perf
    cg_limit,           \* the argument limit
    cg_max_docker,      \* the argument max_docker_containers
    container_stats,    \* the containers docker stats listed, sorted by CPU, with the
                        \* outcome of docker inspect for each
    cgroup_usages,      \* the cgroups with usage data, sorted by score
    perf_access,        \* the names validate_cgroup_perf_event_access accepts
    valid_cgroups       \* the list returned

varsCg == <<cg_pc, cg_limit, cg_max_docker, container_stats, cgroup_usages, perf_access,
            valid_cgroups>>

\* Bounds: the largest limit and max_docker_containers, the number of
\* containers, and the number of cgroups with usage data.
MaxLimit == 2
MaxContainers == 2
MaxUsages == 2

ContainerIds == 1..MaxContainers

\* f"docker/{full_id}" (line 424, and the cgroup v2 paths of lines 390-394):
\* one name per container.
DockerCgroup(id) == [docker |-> TRUE, rel |-> id]

\* The cgroup paths find_all_cgroups can give: the same cgroup under the
\* memory and the cpu,cpuacct controller, the broad docker cgroup, and the
\* cgroup of a container.
CgroupPaths ==
    [base : {"/sys/fs/cgroup/memory/"},
     name : {[docker |-> FALSE, rel |-> 1], [docker |-> FALSE, rel |-> 2],
             [docker |-> TRUE, rel |-> 0], DockerCgroup(1)}]
    \cup [base : {"/sys/fs/cgroup/cpu,cpuacct/"}, name : {[docker |-> FALSE, rel |-> 1]}]

\* The names the containers and cgroups of a host have.
CgroupPerfNames(stats, usages) ==
    {DockerCgroup(stats[i]) : i \in 1..Len(stats)} \cup {usages[i].name : i \in 1..Len(usages)}

\* cgroup_to_perf_name (lines 264-275): the path without the mount point of
\* its controller.
cgroup_to_perf_name(path) == path.name

\* cgroup_name.startswith("docker") (line 472)
StartsWithDocker(name) == name.docker

\* validate_cgroup_perf_event_access (lines 304-334): the directory of the
\* name exists under the perf_event controller (or the unified hierarchy).
validate_cgroup_perf_event_access(name, access) == name \in access

\* Sequences without repetition of at most n elements of S.
DistinctSeqs(S, n) ==
    {l \in UNION {[1..k -> S] : k \in 0..n} : \A i, j \in 1..Len(l) : i # j => l[i] # l[j]}

\* The first n elements: list[:n], as in container_stats[: limit * 2] (line
\* 374) and cgroup_usages[:limit] (line 261)
Slice(list, n) == SubSeq(list, 1, IF n < Len(list) THEN n ELSE Len(list))

\* get_top_docker_containers_for_perf, the loop of lines 374-442 over
\* container_stats[: limit * 2]: a container whose inspect succeeded and whose
\* cgroup passes the check is appended, and the loop ends at limit containers.
RECURSIVE DockerLoop(_, _, _, _)
DockerLoop(stats, docker_containers, limit, access) ==
    IF stats = <<>> THEN docker_containers
    ELSE LET docker_cgroup == DockerCgroup(Head(stats).id)
         IN IF /\ Head(stats).inspect_ok
               /\ validate_cgroup_perf_event_access(docker_cgroup, access)
            THEN IF Len(docker_containers) + 1 >= limit
                 THEN Append(docker_containers, docker_cgroup)
                 ELSE DockerLoop(Tail(stats), Append(docker_containers, docker_cgroup), limit,
                                 access)
            ELSE DockerLoop(Tail(stats), docker_containers, limit, access)

\* Mutant of IsSeenName: no name counts as seen.
MutIsSeenNameNever(name, seen_names) == FALSE

\* `if cgroup_name in seen_names` (lines 476 and 505)
IsSeenName(name, seen_names) == name \in seen_names

Elements(list) == {list[i] : i \in 1..Len(list)}

\* The loop of lines 468-487: the cgroups other than those of containers.
RECURSIVE OtherLoop(_, _, _, _, _)
OtherLoop(top, docker_containers, other_cgroups, limit, access) ==
    IF top = <<>> THEN other_cgroups
    ELSE LET cgroup_name == cgroup_to_perf_name(Head(top))
             seen_names == Elements(docker_containers) \cup Elements(other_cgroups)
         IN IF StartsWithDocker(cgroup_name)
            THEN OtherLoop(Tail(top), docker_containers, other_cgroups, limit, access)
            ELSE IF IsSeenName(cgroup_name, seen_names)
            THEN OtherLoop(Tail(top), docker_containers, other_cgroups, limit, access)
            ELSE IF validate_cgroup_perf_event_access(cgroup_name, access)
            THEN IF Len(docker_containers) + Len(other_cgroups) + 1 >= limit
                 THEN Append(other_cgroups, cgroup_name)
                 ELSE OtherLoop(Tail(top), docker_containers,
                                Append(other_cgroups, cgroup_name), limit, access)
            ELSE OtherLoop(Tail(top), docker_containers, other_cgroups, limit, access)

\* The loop of lines 501-513, without containers.
RECURSIVE PlainLoop(_, _, _)
PlainLoop(top, valid, access) ==
    IF top = <<>> THEN valid
    ELSE LET cgroup_name == cgroup_to_perf_name(Head(top))
         IN IF IsSeenName(cgroup_name, Elements(valid))
            THEN PlainLoop(Tail(top), valid, access)
            ELSE IF validate_cgroup_perf_event_access(cgroup_name, access)
            THEN PlainLoop(Tail(top), Append(valid, cgroup_name), access)
            ELSE PlainLoop(Tail(top), valid, access)

InitCg ==
    /\ cg_pc = "idle"
    /\ cg_limit = 0
    /\ cg_max_docker = 0
    /\ container_stats = <<>>
    /\ cgroup_usages = <<>>
    /\ perf_access = {}
    /\ valid_cgroups = <<>>

\* get_top_cgroup_names_for_perf(limit, max_docker_containers) (lines
\* 451-523) on a host with the given containers, cgroups and access.
GetTopCgroupNames(limit, max_docker_containers, stats, usages, access) ==
    /\ cg_pc = "idle"
    /\ cg_limit' = limit
    /\ cg_max_docker' = max_docker_containers
    /\ container_stats' = stats
    /\ cgroup_usages' = usages
    /\ perf_access' = access
    /\ valid_cgroups' =
          IF max_docker_containers > 0
          THEN LET \* get_top_docker_containers_for_perf(max_docker_containers)
                    docker_containers ==
                      DockerLoop(Slice(stats, max_docker_containers * 2), <<>>,
                                 max_docker_containers, access)
               IN docker_containers
                      \o OtherLoop(Slice(usages, limit), docker_containers, <<>>, limit,
                                   access)
          ELSE PlainLoop(Slice(usages, limit), <<>>, access)
    /\ cg_pc' = "returned"

\* The list is used and dropped.
CgNext ==
    /\ cg_pc = "returned"
    /\ cg_pc' = "idle"
    /\ cg_limit' = 0
    /\ cg_max_docker' = 0
    /\ container_stats' = <<>>
    /\ cgroup_usages' = <<>>
    /\ perf_access' = {}
    /\ valid_cgroups' = <<>>

NextCg ==
    \/ /\ cg_pc = "idle"
       /\ \E limit \in 0..MaxLimit, max_docker_containers \in 0..MaxLimit,
             stats \in DistinctSeqs(ContainerIds, MaxContainers),
             usages \in DistinctSeqs(CgroupPaths, MaxUsages) :
           \E inspect_fails \in SUBSET {stats[i] : i \in 1..Len(stats)},
              access \in SUBSET CgroupPerfNames(stats, usages) :
               GetTopCgroupNames(limit, max_docker_containers,
                                 [i \in 1..Len(stats) |->
                                     [id |-> stats[i],
                                      inspect_ok |-> stats[i] \notin inspect_fails]],
                                 usages, access)
    \/ CgNext

(***************************************************************************)
(* The results of the workers of one cycle                                 *)
(* (gprofiler/profilers/profiler_base.py, ProcessProfilerBase.snapshot and *)
(* _wait_for_profiles)                                                     *)
(***************************************************************************)
VARIABLES
    wf_pc,              \* "idle", "waiting" (inside _wait_for_profiles), "returned", "raised"
    futures,            \* per pid: NotSubmitted, or how its worker ends
    wf_done,            \* the futures as_completed has yielded so far
    results,            \* the local results of _wait_for_profiles: per pid NoEntryYet or an entry
    wf_raised           \* the exception that left _wait_for_profiles, or "none"

varsWf == <<wf_pc, futures, wf_done, results, wf_raised>>

\* Bound: number of processes selected in a cycle.
MaxTargets == 3

Targets == 1..MaxTargets

NotSubmitted == "not submitted"

\* How _profile_process can end: with a profile, with None, or with an
\* exception.
WorkerOutcomes ==
    {"profile", "None", "NoSuchProcess", "ZombieProcess", "CalledProcessError",
     "StopEventSetException"}

NoEntryYet == [what |-> "none", reason |-> "", kind |-> ""]

\* ProfileData(self._profiling_error_stack("error", reason, comm), ...)
ErrorStack(reason, kind) == [what |-> "error", reason |-> reason, kind |-> kind]

\* Mutant of ResultOf: a process that went down is reported like any other
\* exception.
MutResultOfNoWentDown(outcome) ==
    CASE outcome = "profile" -> [what |-> "profile", reason |-> "", kind |-> ""]
      [] outcome = "None" -> ErrorStack("exception", "AssertionError")
      [] OTHER -> ErrorStack("exception", outcome)

\* The try statement of lines 149-174 for a future that did not end with
\* StopEventSetException: the worker's result; for NoSuchProcess and
\* ZombieProcess the stack "process went down during profiling"; for any other
\* exception, the failed `assert result is not None` included, the stack
\* f"exception {type(e).__name__}".
ResultOf(outcome) ==
    CASE outcome = "profile" -> [what |-> "profile", reason |-> "", kind |-> ""]
      [] outcome \in {"NoSuchProcess", "ZombieProcess"} ->
            ErrorStack("process went down during profiling", "")
      [] outcome = "None" -> ErrorStack("exception", "AssertionError")
      [] OTHER -> ErrorStack("exception", outcome)

InitWf ==
    /\ wf_pc = "idle"
    /\ futures = [p \in Targets |-> NotSubmitted]
    /\ wf_done = {}
    /\ results = [p \in Targets |-> NoEntryYet]
    /\ wf_raised = "none"

\* snapshot (lines 261-291) from the submits on: a worker is submitted for
\* every selected process whose process_comm can be read (gone: those for which
\* it raises NoSuchProcess or ZombieProcess), then _wait_for_profiles is
\* called. Without selected processes snapshot returns {}.
WfSnapshot(processes_to_profile, gone, outcome) ==
    /\ wf_pc = "idle"
    /\ futures' = [p \in Targets |->
                      IF p \in processes_to_profile \ gone THEN outcome[p] ELSE NotSubmitted]
    /\ wf_done' = {}
    /\ results' = [p \in Targets |-> NoEntryYet]
    /\ wf_raised' = "none"
    /\ wf_pc' = IF processes_to_profile = {} THEN "returned" ELSE "waiting"

\* One iteration of the loop over as_completed(futures) (lines 147-174).
WfHandleFuture(p) ==
    /\ wf_pc = "waiting"
    /\ futures[p] # NotSubmitted
    /\ p \notin wf_done
    /\ wf_done' = wf_done \cup {p}
    /\ IF futures[p] = "StopEventSetException"
       THEN /\ wf_raised' = "StopEventSetException"
            /\ wf_pc' = "raised"
            /\ UNCHANGED results
       ELSE /\ results' = [results EXCEPT ![p] = ResultOf(futures[p])]
            /\ UNCHANGED <<wf_raised, wf_pc>>
    /\ UNCHANGED futures

\* return results (line 176)
WfReturn ==
    /\ wf_pc = "waiting"
    /\ \A p \in Targets : futures[p] # NotSubmitted => p \in wf_done
    /\ wf_pc' = "returned"
    /\ UNCHANGED <<futures, wf_done, results, wf_raised>>

\* The next cycle.
WfNext ==
    /\ wf_pc \in {"returned", "raised"}
    /\ wf_pc' = "idle"
    /\ futures' = [p \in Targets |-> NotSubmitted]
    /\ wf_done' = {}
    /\ results' = [p \in Targets |-> NoEntryYet]
    /\ wf_raised' = "none"

NextWf ==
    \/ /\ wf_pc = "idle"
       /\ \E processes_to_profile \in SUBSET Targets :
             \E gone \in SUBSET processes_to_profile,
                outcome \in [processes_to_profile -> WorkerOutcomes] :
                  WfSnapshot(processes_to_profile, gone, outcome)
    \/ \E p \in Targets : WfHandleFuture(p)
    \/ WfReturn
    \/ WfNext

vars == <<varsCM, varsHB, varsReap, varsPerf, varsDisc, varsRt, varsSpark, varsCf, varsCmd, varsArgs, varsCg, varsWf>>

Init ==
    /\ InitCM
    /\ InitHB
    /\ InitReap
    /\ InitPerf
    /\ InitDisc
    /\ InitRt
    /\ InitSpark
    /\ InitCf
    /\ InitCmd
    /\ InitArgs
    /\ InitCg
    /\ InitWf

SpecCM ==
    Init /\ [][NextCM /\ UNCHANGED <<varsHB, varsReap, varsPerf, varsDisc, varsRt, varsSpark, varsCf, varsCmd, varsArgs, varsCg, varsWf>>]_vars

\* The heartbeat thread and the run threads it starts.
SpecHB ==
    Init /\ [][NextHB /\ UNCHANGED <<varsCM, varsReap, varsPerf, varsDisc, varsRt, varsSpark, varsCf, varsCmd, varsArgs, varsCg, varsWf>>]_vars

\* The same, with DynamicGProfilerManager.stop() called from another thread.
SpecHBStop ==
    Init /\ [][NextHBStop /\ UNCHANGED <<varsCM, varsReap, varsPerf, varsDisc, varsRt, varsSpark, varsCf, varsCmd, varsArgs, varsCg, varsWf>>]_vars

\* The subprocess registry, its processes and the reap pass.
SpecReap ==
    Init /\ [][NextReap /\ UNCHANGED <<varsCM, varsHB, varsPerf, varsDisc, varsRt, varsSpark, varsCf, varsCmd, varsArgs, varsCg, varsWf>>]_vars

\* The perf supervisor, its children and the clock.
SpecPerf ==
    Init /\ [][NextPerf /\ UNCHANGED <<varsCM, varsHB, varsReap, varsDisc, varsRt, varsSpark, varsCf, varsCmd, varsArgs, varsCg, varsWf>>]_vars

\* Discovery of the perf event.
SpecDisc ==
    Init /\ [][NextDisc /\ UNCHANGED <<varsCM, varsHB, varsReap, varsPerf, varsRt, varsSpark, varsCf, varsCmd, varsArgs, varsCg, varsWf>>]_vars

\* The per-runtime samplers (py-spy, rbspy) and their workers.
SpecRt ==
    Init /\ [][NextRt /\ UNCHANGED <<varsCM, varsHB, varsReap, varsPerf, varsDisc, varsSpark, varsCf, varsCmd, varsArgs, varsCg, varsWf>>]_vars

\* The Spark registry, the messages it receives and its cleanup thread.
SpecSpark ==
    Init /\ [][NextSpark /\ UNCHANGED <<varsCM, varsHB, varsReap, varsPerf, varsDisc, varsRt, varsCf, varsCmd, varsArgs, varsCg, varsWf>>]_vars

\* The Spark registry with a caller of filter_processes.
SpecSparkFilter ==
    Init /\ [][NextSparkFilter /\ UNCHANGED <<varsCM, varsHB, varsReap, varsPerf, varsDisc, varsRt, varsCf, varsCmd, varsArgs, varsCg, varsWf>>]_vars

\* The collapsed-stack parser applied to an input, and to its own output written out.
SpecCf ==
    Init /\ [][NextCf /\ UNCHANGED <<varsCM, varsHB, varsReap, varsPerf, varsDisc, varsRt, varsSpark, varsCmd, varsArgs, varsCg, varsWf>>]_vars

\* The perf record command line built for a constructed supervisor.
SpecCmd ==
    Init /\ [][NextCmd /\ UNCHANGED <<varsCM, varsHB, varsReap, varsPerf, varsDisc, varsRt, varsSpark, varsCf, varsArgs, varsCg, varsWf>>]_vars

\* The arguments made from the profiler_configs of a start command.
SpecArgs ==
    Init /\ [][NextArgs /\ UNCHANGED <<varsCM, varsHB, varsReap, varsPerf, varsDisc, varsRt, varsSpark, varsCf, varsCmd, varsCg, varsWf>>]_vars

\* The choice of the cgroups perf is scoped to.
SpecCg ==
    Init /\ [][NextCg /\ UNCHANGED <<varsCM, varsHB, varsReap, varsPerf, varsDisc, varsRt, varsSpark, varsCf, varsCmd, varsArgs, varsWf>>]_vars

\* The workers of one cycle and the collection of their results.
SpecWf ==
    Init /\ [][NextWf /\ UNCHANGED <<varsCM, varsHB, varsReap, varsPerf, varsDisc, varsRt, varsSpark, varsCf, varsCmd, varsArgs, varsCg>>]_vars

(***************************************************************************)
(* Claims about the CommandManager                                         *)
(***************************************************************************)

\* C2: in every reachable state of the CommandManager, under every interleaving
\* of enqueue_command, get_next_command and clear_queues, the ad-hoc queue
\* holds at most 10 commands and the continuous queue at most 1.
C2_QueueBounds ==
    /\ Len(adhoc_queue) <= ADHOC_QUEUE_MAX_SIZE
    /\ Len(continuous_queue) <= CONTINUOUS_QUEUE_MAX_SIZE

\* Both queues are at their bound and an enqueue_command was just refused.
C2_Witness ==
    /\ Len(adhoc_queue) = ADHOC_QUEUE_MAX_SIZE
    /\ Len(continuous_queue) = CONTINUOUS_QUEUE_MAX_SIZE
    /\ \E t \in CMThreads : cm_ret[t] = RetFalse

\* C3 (as stated): get_next_command returns the ad-hoc commands in arrival
\* order and never returns an ad-hoc command after it returned a continuous one.
C3_AllAdhocBeforeAnyContinuous ==
    /\ adhoc_order_ok
    /\ ~adhoc_after_continuous

\* C3 (amended): get_next_command returns the ad-hoc commands in their arrival
\* order, and returns a continuous command only when no ad-hoc command is
\* pending at that call.
C3_AdhocFifoAndPriority ==
    /\ adhoc_order_ok
    /\ ~continuous_preempted_adhoc
    /\ \A i \in 1..Len(adhoc_queue) :
          /\ adhoc_queue[i].command_id > last_adhoc_returned
          /\ i > 1 => adhoc_queue[i].command_id > adhoc_queue[i-1].command_id

\* Several ad-hoc commands were returned, a continuous one was returned, and an
\* ad-hoc command that arrived later was returned after it.
C3_Witness ==
    /\ continuous_returned
    /\ adhoc_after_continuous
    /\ last_adhoc_returned >= 3

\* C4: when the target queue is full, enqueue_command returns False and leaves
\* the contents and order of both queues as they were.
C4_FullQueueDropsIncoming ==
    [][\A t \in CMThreads :
          (/\ cm_pc[t] = "enq_check"
           /\ cm_pc'[t] # "enq_check"
           /\ IF cm_cmd[t].is_continuous
              THEN Len(continuous_queue) = CONTINUOUS_QUEUE_MAX_SIZE
              ELSE Len(adhoc_queue) = ADHOC_QUEUE_MAX_SIZE)
          => (/\ cm_ret'[t] = RetFalse
              /\ cm_pc'[t] = "idle"
              /\ adhoc_queue' = adhoc_queue
              /\ continuous_queue' = continuous_queue)]_vars

\* An eleventh ad-hoc command was refused while ten are pending, and a second
\* continuous command was refused while one is pending.
C4_Witness ==
    /\ Len(adhoc_queue) = ADHOC_QUEUE_MAX_SIZE
    /\ Len(continuous_queue) = CONTINUOUS_QUEUE_MAX_SIZE
    /\ cm_ret["t1"] = RetFalse /\ ~cm_cmd["t1"].is_continuous /\ cm_cmd["t1"].command_id > 0
    /\ cm_ret["t2"] = RetFalse /\ cm_cmd["t2"].is_continuous

(***************************************************************************)
(* Claims about the heartbeat loop and the idempotency set                 *)
(***************************************************************************)

\* C1 (as stated): each command_id is acted on at most once in the lifetime of
\* the HeartbeatClient, however many other commands separate its repeats; in
\* particular _start_new_profiler is invoked at most once per command_id.
C1_AtMostOncePerLifetime ==
    \A c \in CommandIds : exec_count[c] <= 1 /\ start_count[c] <= 1

\* C1 (amended): a command_id is acted on again only after it was evicted from
\* the idempotency set: it is acted on at most once more than it was evicted,
\* and _start_new_profiler is invoked at most once per time it is acted on.
C1_AtMostOncePerResidence ==
    \A c \in CommandIds :
        /\ exec_count[c] <= 1 + evict_count[c]
        /\ start_count[c] <= exec_count[c]
        /\ (exec_count[c] > evict_count[c]) => c \in executed_command_ids

\* A start command was repeated after its id had been evicted, and was started twice.
C1_Witness ==
    \E c \in CommandIds :
        exec_count[c] = 2 /\ start_count[c] = 2 /\ evict_count[c] = 1

\* C5: executed_command_ids never holds more than max_command_history ids, and
\* a mark_command_executed whose insertion exceeds the limit evicts exactly as
\* many ids as bring the set back to the limit; below the limit nothing is evicted.
C5_HistoryBounded ==
    [][/\ Cardinality(executed_command_ids') <= max_command_history
       /\ (pc["hb"] = "check" /\ hb_outcome' = "accepted") =>
            LET S == executed_command_ids \cup {hb_resp.command_id}
            IN /\ executed_command_ids' \subseteq S
               /\ Cardinality(S) > max_command_history =>
                     Cardinality(executed_command_ids') = max_command_history
               /\ Cardinality(S) <= max_command_history =>
                     executed_command_ids' = S]_vars

\* A command was just marked executed, an id was evicted, and the set is at its limit.
C5_Witness ==
    /\ hb_outcome = "accepted"
    /\ Cardinality(executed_command_ids) = max_command_history
    /\ \E c \in CommandIds : evict_count[c] >= 1

\* C6: a response whose command_id is in the idempotency set is skipped, and
\* until the next heartbeat is sent the heartbeat thread changes nothing: no
\* profiler is stopped or started, no command_completion is sent,
\* last_command_id and the idempotency set stay as they are; it only waits.
C6_DuplicateTickIsNoOp ==
    [][/\ (pc["hb"] = "check" /\ pc'["hb"] # "check"
           /\ hb_resp.command_id \in executed_command_ids)
          => (hb_outcome' = "skipped" /\ pc'["hb"] = "wait")
       /\ (pc'["hb"] # pc["hb"] /\ hb_outcome' = "skipped")
          => /\ pc'["hb"] \in {"wait", "send", "done"}
             /\ UNCHANGED <<executed_command_ids, last_command_id, current_gprofiler,
                            current_thread, prof_stop_set, run_pc, n_profilers,
                            tick_sent, exec_count, start_count, evict_count>>
             /\ tick_sent = <<>>]_vars

\* A duplicate was skipped while a profiler started earlier is still running.
C6_Witness ==
    /\ hb_outcome = "skipped"
    /\ pc["hb"] = "wait"
    /\ hb_resp.command_id \in executed_command_ids
    /\ current_gprofiler # NoProfiler
    /\ IsAlive(current_thread)
    /\ current_gprofiler \notin prof_stop_set

(***************************************************************************)
(* Claims about the reap pass                                              *)
(***************************************************************************)

\* C7: once a reap pass is over, every handle the pass found exited has none of
\* its stdin, stdout and stderr pipes open, whatever was raised while closing.
C7_ExitedHandlesHaveNoOpenPipe ==
    reap_pc = "idle" =>
        \A h \in polled_exited : \A n \in PipeNames : pipes[h][n] # "open"

C9_StoppedOrRunningChild ==
    perf_pc = "idle" =>
        \/ perf_process = NoChild
        \/ /\ child_state[perf_process] = "running"
           /\ child_stdout[perf_process] = "open"

\* C9: between operations the supervisor is stopped or holds a child whose
\* stdout is open and which it has neither terminated nor killed; the child is
\* running unless it exited on its own, which is_running reports.
C9_StoppedOrUnreapedChild ==
    perf_pc = "idle" =>
        \/ perf_process = NoChild
        \/ /\ child_state[perf_process] \in {"running", "exited"}
           /\ child_stdout[perf_process] = "open"
           /\ is_running = (child_state[perf_process] = "running")

\* After a restart replaced the first child, the second one exited on its own
\* and is still held.
C9_Witness ==
    /\ perf_pc = "idle"
    /\ perf_process = 2
    /\ child_state[1] = "terminated"
    /\ child_stdout[1] = "closed"
    /\ child_state[2] = "exited"

\* C10: when cgroup scoping was requested and no eligible cgroup was found,
\* construction raised PerfNoSupportedEvent, and the supervisor is never
\* configured host-wide without -G or PID-targeted.
C10_CgroupRequestNeverFallsBack ==
    (perf_request.use_cgroups /\ perf_request.top_cgroups # "found") =>
        /\ perf_obj = "refused"
        /\ perf_init_error.type = "PerfNoSupportedEvent"
        /\ pid_args = <<>>

(***************************************************************************)
(* Claims about the discovery of the perf event                            *)
(***************************************************************************)

\* C11: when every event family failed with a fatal signal during discovery,
\* discover_appropriate_perf_event yields the default event and does not raise.
C11_AllSegfaultsYieldDefault ==
    (disc_pc = "done" /\ segfault_count = total_events) =>
        disc_result = Returned("default")

(***************************************************************************)
(* Claims about the per-runtime samplers                                   *)
(***************************************************************************)

\* C12: a process whose age is below min_duration is never profiled in a
\* cycle, neither as a pre-existing candidate nor as a spawned process.
C12_YoungProcessNeverProfiled ==
    ~rt_young_profiled

\* C19: with a cap N > 0 the number of profile workers running at the same
\* time, for pre-existing and for spawned processes together, never exceeds N.
C19_WorkersWithinCap ==
    rt_cap > 0 =>
        Cardinality(rt_workers) + Cardinality(rt_spawned_workers) <= rt_cap

(***************************************************************************)
(* Claims about the profiling lifecycle driven by the heartbeat loop       *)
(***************************************************************************)

\* C13: at any time at most one run thread started by the manager is alive.
C13_AtMostOneRunThread ==
    Cardinality({g \in Profilers : IsAlive(g)}) <= 1

\* C14: once a profiler has been started, every invocation of
\* _stop_current_profiler runs the reap pass, also when the run has already
\* ended on its own: it never goes from its first test straight to the join,
\* and when it reaches the reap the profiler reference it is called on is
\* still there.
C14_EveryStopReaps ==
    [][\A th \in {"hb", "main"} :
          /\ (pc[th] = "stop_test" /\ n_profilers > 0 /\ pc'[th] # "stop_test")
                => pc'[th] = "stop_call"
          /\ (pc[th] = "stop_cleanup" /\ pc'[th] # "stop_cleanup")
                => current_gprofiler # NoProfiler]_vars

\* C15: the step in which a profiling run ends sends a command_completion for
\* its command.
C15_RunReportsCompletion ==
    [][\A g \in Profilers :
          (run_pc[g] = "running" /\ run_pc'[g] # "running")
              => Len(tick_sent') = Len(tick_sent) + 1]_vars

\* C16: a start command that does not target this host creates no profiler
\* instance, starts no run thread, and has no failure reported for it.
C16_UntargetedStartIsNoOp ==
    (hb_outcome = "accepted" /\ hb_resp.command_type = "start" /\ ~hb_resp.host_targeted)
        => /\ \A i \in 1..Len(tick_sent) : tick_sent[i].status # "failed"
           /\ pc["hb"] \in {"report", "wait"} =>
                 (current_gprofiler = NoProfiler /\ ~IsAlive(current_thread))

\* C17: a command whose type is neither start nor stop is answered with one
\* command_completion of status failed carrying "Unknown command type: <type>",
\* and no step of the heartbeat thread that handles it touches the profiling
\* lifecycle.
C17_UnknownTypeFailsAndLeavesLifecycle ==
    [][(/\ hb_outcome' = "accepted"
        /\ hb_resp'.command_type \notin {"start", "stop"}
        /\ pc'["hb"] # pc["hb"])
          => /\ UNCHANGED <<current_gprofiler, current_thread, prof_stop_set, n_profilers,
                            run_pc, start_count>>
             /\ pc'["hb"] \in {"report", "wait", "send"}
             /\ pc'["hb"] = "wait" =>
                   tick_sent' = <<[command_id |-> hb_resp.command_id, status |-> "failed",
                                   error_message |->
                                       ErrorMessage("Unknown command type: ",
                                                    hb_resp.command_type)]>>]_vars

\* An unknown command was answered while a profiler is running, and the
\* profiler is still running.
C17_Witness ==
    /\ pc["hb"] = "wait"
    /\ hb_outcome = "accepted"
    /\ hb_resp.command_type = "restart"
    /\ Len(tick_sent) = 1
    /\ tick_sent[1].status = "failed"
    /\ current_gprofiler # NoProfiler
    /\ IsAlive(current_thread)
    /\ current_gprofiler \notin prof_stop_set

\* C18: a heartbeat that brings no response changes neither last_command_id nor
\* the idempotency set nor the current profiler or its thread; the loop waits
\* and sends the next heartbeat; the loop has only ended when the stop event is
\* set.
C18_FailedHeartbeatIsHarmless ==
    [][/\ (pc["hb"] = "send" /\ pc'["hb"] = "wait")
            => /\ hb_resp' = NoResponse
               /\ UNCHANGED <<last_command_id, executed_command_ids, current_gprofiler,
                              current_thread, prof_stop_set, run_pc, n_profilers>>
       /\ (pc["hb"] = "wait" /\ hb_resp = NoResponse /\ pc'["hb"] # "wait")
            => /\ pc'["hb"] = "send"
               /\ UNCHANGED <<last_command_id, executed_command_ids>>
       /\ (pc["hb"] = "send" /\ pc'["hb"] = "done") => stop_event
       /\ (pc["hb"] = "send" /\ ~stop_event /\ pc'["hb"] # "send")
            => (ticks' = ticks + 1 /\ pc'["hb"] \in {"wait", "check"})]_vars

\* After an accepted command started a profiler, a later heartbeat brought no
\* response and the loop waits for the next tick with the state as it was.
C18_Witness ==
    /\ pc["hb"] = "wait"
    /\ hb_resp = NoResponse
    /\ ticks >= 2
    /\ last_command_id # NoId
    /\ executed_command_ids # {}
    /\ current_gprofiler # NoProfiler
    /\ IsAlive(current_thread)
    /\ ~stop_event

\* C20: every child the perf supervisor holds (the perf record child of
\* start, the perf script child of wait_and_script) is tracked by the process
\* registry from its spawn on, hence before its pipes are read.
C20_PerfChildrenAreTracked ==
    /\ process # NoChild => process \in registry
    /\ perf_process # NoChild => perf_process \in registry
    /\ perf_script_proc # NoChild => perf_script_proc \in registry

(***************************************************************************)
(* Claims about the perf supervisor's rotation and restarts                *)
(***************************************************************************)

\* C21: the dump file wait_and_script picks up after a switch_output is the
\* one produced by the signal of that switch_output: it never picks up a file
\* while that signal has not been handled by the child yet.
C21_PickedFileIsFromSignal ==
    [][(perf_pc = "idle" /\ perf_pc' = "script_spawn") => ~signal_pending]_vars

\* C30: restart_if_rss_exceeded never restarts a child that was started less
\* than RESTART_AFTER_S ago.
C30_NoRssRestartBeforeMinimumUptime ==
    ~young_rss_restart

(***************************************************************************)
(* Further claims about the heartbeat loop and the CommandManager          *)
(***************************************************************************)

\* C25: for the command a tick handles, at most one command_completion is
\* sent, and never a 'failed' one together with a 'completed' one.
C25_AtMostOneReportPerCommand ==
    /\ Len(tick_sent) <= 1
    /\ ~(\E i, j \in 1..Len(tick_sent) :
            tick_sent[i].status = "failed" /\ tick_sent[j].status = "completed")

\* C26: once DynamicGProfilerManager.stop() is over, no run thread is started
\* any more.
C26_NothingStartedAfterStop ==
    [][pc["main"] = "done"
          => \A g \in Profilers : run_pc[g] = "unborn" => run_pc'[g] = "unborn"]_vars

\* C27: when the loop has marked a command as executed, its id is in
\* executed_command_ids, also when marking it evicted an id.
C27_MarkedIdIsMember ==
    [][(pc["hb"] = "check" /\ hb_outcome' = "accepted" /\ pc'["hb"] # "check")
          => hb_resp.command_id \in executed_command_ids']_vars

\* C28: get_next_command takes effect in one step, under queue_lock: it
\* returns and removes the oldest ad-hoc command if there is one, else the
\* oldest continuous command, else returns None and leaves both queues as
\* they are; while it holds the lock nobody else changes the queues; the
\* command it returns is in neither queue afterwards, and the ad-hoc commands
\* are handed out in strictly increasing arrival order, so none is returned
\* twice.
C28_GetNextCommandAtomic ==
    /\ [][\A t \in CMThreads :
            /\ (cm_pc[t] = "get_body" /\ cm_pc'[t] = "idle") =>
                  /\ queue_lock = t
                  /\ IF adhoc_queue # <<>>
                     THEN /\ cm_ret'[t] = RetCmd(Head(adhoc_queue))
                          /\ adhoc_queue' = Tail(adhoc_queue)
                          /\ continuous_queue' = continuous_queue
                     ELSE IF continuous_queue # <<>>
                     THEN /\ cm_ret'[t] = RetCmd(Head(continuous_queue))
                          /\ continuous_queue' = Tail(continuous_queue)
                          /\ adhoc_queue' = adhoc_queue
                     ELSE /\ cm_ret'[t] = RetNone
                          /\ UNCHANGED <<adhoc_queue, continuous_queue>>
                  /\ cm_ret'[t].ret = "cmd" =>
                        /\ \A i \in 1..Len(adhoc_queue') : adhoc_queue'[i] # cm_ret'[t].cmd
                        /\ \A i \in 1..Len(continuous_queue') :
                              continuous_queue'[i] # cm_ret'[t].cmd
            /\ (cm_pc[t] = "get_body" /\ cm_pc'[t] = "get_body")
                  => UNCHANGED <<adhoc_queue, continuous_queue>>]_vars
    /\ []adhoc_order_ok

\* Both kinds of command have been handed out while another thread was in the
\* middle of an enqueue_command and a get_next_command was about to run.
C28_Witness ==
    /\ continuous_returned
    /\ last_adhoc_returned > 1
    /\ \E t, u \in CMThreads :
          /\ cm_pc[t] = "get_body"
          /\ cm_pc[u] = "idle"
          /\ cm_ret[u].ret = "cmd"
          /\ adhoc_queue # <<>>
          /\ continuous_queue # <<>>

\* C29: on an accepted start command the loop runs _stop_current_profiler to
\* its end, then _start_new_profiler, then sends the 'completed'
\* acknowledgement; on an accepted stop command it runs _stop_current_profiler
\* and then sends 'completed', and once that is sent no profiler is referenced
\* as current.
C29_StopThenStartThenAck ==
    /\ [][LET acc == hb_outcome = "accepted"
              typ == hb_resp.command_type
          IN /\ (pc["hb"] # "start_create" /\ pc'["hb"] = "start_create")
                    => /\ acc /\ typ = "start"
                       /\ pc["hb"] \in {"stop_join", "stop_joining"}
                       /\ current_gprofiler' = NoProfiler
             /\ (pc["hb"] # "report" /\ pc'["hb"] = "report" /\ typ = "start")
                    => /\ pc["hb"] \in {"start_create", "start_thread"}
                       /\ start_count'[hb_resp.command_id] >= 1
             /\ (pc["hb"] # "report" /\ pc'["hb"] = "report" /\ typ = "stop")
                    => pc["hb"] \in {"stop_join", "stop_joining"}
             /\ (\E i \in 1..Len(tick_sent') :
                    i > Len(tick_sent) /\ tick_sent'[i].status = "completed")
                    => /\ pc["hb"] = "report" /\ pc'["hb"] = "wait"
                       /\ typ \in {"start", "stop"}
                       /\ tick_sent'[Len(tick_sent')].command_id = hb_resp.command_id]_vars
    /\ []((pc["hb"] = "wait" /\ hb_outcome = "accepted"
             /\ hb_resp.command_type \in {"start", "stop"})
            => /\ tick_sent # <<>>
               /\ tick_sent[Len(tick_sent)].status = "completed"
               /\ hb_resp.command_type = "stop" => current_gprofiler = NoProfiler)

\* A start command was acknowledged after the previous profiler was stopped
\* and the new one started.
C29_Witness ==
    /\ pc["hb"] = "wait"
    /\ hb_outcome = "accepted"
    /\ hb_resp.command_type = "start"
    /\ tick_sent # <<>>
    /\ tick_sent[Len(tick_sent)].status = "completed"
    /\ n_profilers = 2
    /\ 1 \in prof_stop_set
    /\ current_gprofiler = 2
    /\ run_pc[2] = "running"

(***************************************************************************)
(* Claims about the Spark registry                                         *)
(***************************************************************************)

\* C22: filter_processes returns, in input order, exactly the processes whose
\* pid is not in the registry or whose registered app id is allowed (as the
\* registry and the allowed set were when the call copied them); a registered
\* pid whose app id is not allowed is never in the result.
C22_FilterKeepsUnknownAndAllowed ==
    [][(filter_pc = "snapshot" /\ filter_pc' = "idle") =>
          LET Keep(pid) == \/ ~Registered(spark_registry, pid)
                           \/ spark_registry[pid].app_id \in filter_allowed
          IN /\ kept_processes' = SelectSeq(filter_processes_arg, Keep)
             /\ \A i \in 1..Len(kept_processes') :
                   ~(/\ Registered(spark_registry, kept_processes'[i])
                     /\ spark_registry[kept_processes'[i]].app_id \notin filter_allowed)]_vars

\* A call was given a denied Spark process followed by a process that is no
\* Spark process, and returned only the latter.
C22_Witness ==
    /\ filter_pc = "idle"
    /\ Len(filter_processes_arg) = 2
    /\ Len(kept_processes) = 1
    /\ kept_processes[1] = MaxSparkPids + 1
    /\ kept_processes[1] = filter_processes_arg[2]
    /\ Registered(spark_registry, filter_processes_arg[1])
    /\ spark_registry[filter_processes_arg[1]].app_id = "app-denied"
    /\ allowed_apps = {"app-allowed"}

\* C23: a cleanup pass that read the time t removes exactly the pids whose
\* last heartbeat is more than STALE_THRESHOLD_S before t and leaves the
\* entries of all others as they are; a heartbeat from any pid, removed or
\* not, registers it with the current time.
C23_CleanupRemovesExactlyStale ==
    [][/\ (cleanup_pc = "pass" /\ cleanup_pc' = "wait") =>
            \A p \in SparkPids :
               /\ (Registered(spark_registry, p)
                     /\ cleanup_now - spark_registry[p].last_heartbeat > STALE_THRESHOLD_S)
                    => (~Registered(spark_registry', p) /\ p \in to_remove')
               /\ (Registered(spark_registry, p)
                     /\ cleanup_now - spark_registry[p].last_heartbeat <= STALE_THRESHOLD_S)
                    => (spark_registry'[p] = spark_registry[p] /\ p \notin to_remove')
               /\ ~Registered(spark_registry, p) => ~Registered(spark_registry', p)
       /\ \A p \in SparkPids :
            (~Registered(spark_registry, p) /\ Registered(spark_registry', p))
               => spark_registry'[p].last_heartbeat = spark_now]_vars

\* The last pass removed a pid that has registered again since, and kept a pid
\* whose heartbeat was exactly STALE_THRESHOLD_S old.
C23_Witness ==
    /\ cleanup_pc = "wait"
    /\ \E p, q \in SparkPids :
          /\ p \in to_remove
          /\ Registered(spark_registry, p)
          /\ spark_registry[p].last_heartbeat = spark_now
          /\ q \notin to_remove
          /\ Registered(spark_registry, q)
          /\ cleanup_now - spark_registry[q].last_heartbeat = STALE_THRESHOLD_S

(***************************************************************************)
(* Claims about the collapsed-stack parser                                 *)
(***************************************************************************)

C31_TimeoutKillsChildAndStaysStopped ==
    [][(perf_pc = "start_wait" /\ perf_raised' = "TimeoutError") =>
          /\ child_state'[process] # "running"
          /\ perf_pc' = "idle"
          /\ perf_process' = perf_process
          /\ perf_process = NoChild => (perf_process' = NoChild /\ ~is_running')]_vars

\* start() of a stopped supervisor timed out: its child was killed while it
\* ran and nothing is recorded.
C31_Witness ==
    /\ perf_pc = "idle"
    /\ perf_raised = "TimeoutError"
    /\ perf_process = NoChild
    /\ \E c \in Children : child_state[c] = "killed"

\* C32: whenever start() ends with an exception after it spawned a child,
\* that child is not running, or it is the child recorded in _process.
C32_FailedStartLeavesNoStrayChild ==
    [][(perf_pc = "start_wait" /\ perf_pc' = "idle" /\ perf_raised' # "none") =>
          (child_state'[process] = "running" => perf_process' = process)]_vars

\* C33: when wait_and_script ends after perf script was spawned, the script
\* child is not running and the dump file it read is removed, whether the
\* stream ended normally, with an error or because the consumer stopped; and
\* after a non-zero exit status the generator ends without an exception.
C33_ScriptChildAndFileAlwaysCleaned ==
    [][(perf_pc = "script_finally" /\ perf_pc' = "idle") =>
          /\ script_state' = "none"
          /\ dump_files' < dump_files
          /\ script_state = "exited_nonzero" => perf_raised' = "none"]_vars

(***************************************************************************)
(* Claims about the perf record command line                               *)
(***************************************************************************)

\* C39: a command line that scopes sampling to k cgroups (-G followed by k
\* names) has exactly k -e arguments, whatever extra arguments were
\* configured, and all of them stand before -G.
C39_OneEventPerCgroup ==
    LET gpos == {i \in 1..Len(perf_cmd) : perf_cmd[i] = <<"-", "G">>}
        epos == {i \in 1..Len(perf_cmd) : perf_cmd[i] = <<"-", "e">>}
    IN (cmd_pc = "built" /\ gpos # {}) =>
          /\ Cardinality(epos) = Len(top_cgroups)
          /\ \A e \in epos, g \in gpos : e < g

(***************************************************************************)
(* Claims about the profiler arguments of a start command                  *)
(***************************************************************************)

\* C40: when the profiler_configs of a start command have pyperf "disabled",
\* the python mode of the arguments made from it is "pyspy" or "disabled",
\* whatever the pyspy entry is and also when there is none.
C40_PyperfDisabledNeverUsesPyperf ==
    (args_pc = "returned" /\ profiler_configs.pyperf = "disabled") =>
        new_args.python_mode \in {"pyspy", "disabled"}

(***************************************************************************)
(* Claims about the choice of the cgroups                                  *)
(***************************************************************************)

\* C37: every name in the list get_top_cgroup_names_for_perf returns passed
\* validate_cgroup_perf_event_access, and no name is in the list twice, with
\* and without the cgroups of single containers.
C37_ReturnedNamesValidatedAndDistinct ==
    cg_pc = "returned" =>
        /\ \A i \in 1..Len(valid_cgroups) : valid_cgroups[i] \in perf_access
        /\ \A i, j \in 1..Len(valid_cgroups) : i # j => valid_cgroups[i] # valid_cgroups[j]

\* The same cgroup came up under two controllers and was returned once, next
\* to the cgroup of a container, while a cgroup without access was left out.
C37_Witness ==
    /\ cg_pc = "returned"
    /\ cg_max_docker > 0
    /\ Len(cgroup_usages) = 2
    /\ cgroup_usages[1].name = cgroup_usages[2].name
    /\ Len(container_stats) = 2
    /\ \E i \in 1..2 : DockerCgroup(container_stats[i].id) \notin perf_access
    /\ Len(valid_cgroups) = 2
    /\ StartsWithDocker(valid_cgroups[1])
    /\ valid_cgroups[2] = cgroup_usages[1].name

\* C38: the list get_top_cgroup_names_for_perf(limit, max_docker_containers)
\* returns is never longer than limit, whatever max_docker_containers is.
C38_NeverMoreThanLimit ==
    cg_pc = "returned" => Len(valid_cgroups) <= cg_limit

(***************************************************************************)
(* Claims about the results of a cycle                                     *)
(***************************************************************************)

\* C34: when _wait_for_profiles returns, the map has an entry for every worker
\* that was submitted and for no other pid: the profile of a worker that
\* succeeded, the stack "process went down during profiling" for NoSuchProcess
\* and ZombieProcess, the stack "exception <Kind>" for any other exception.
\* An entry, once made, is not changed by what happens to other workers, and
\* the only exception that leaves the function is StopEventSetException.
C34_EveryWorkerGetsItsEntry ==
    [][/\ wf_pc' = "returned" =>
             \A p \in Targets :
                /\ futures'[p] = NotSubmitted => results'[p] = NoEntryYet
                /\ futures'[p] = "profile" => results'[p].what = "profile"
                /\ futures'[p] \in {"NoSuchProcess", "ZombieProcess"} =>
                      results'[p] = ErrorStack("process went down during profiling", "")
                /\ futures'[p] \in {"CalledProcessError"} =>
                      results'[p] = ErrorStack("exception", futures'[p])
                /\ futures'[p] = "None" =>
                      results'[p] = ErrorStack("exception", "AssertionError")
       /\ wf_pc = "waiting" =>
             \A p \in Targets : results[p] # NoEntryYet => results'[p] = results[p]
       /\ wf_raised' \in {"none", "StopEventSetException"}
       /\ wf_raised' = "StopEventSetException" =>
             \E p \in Targets : futures'[p] = "StopEventSetException"]_vars

\* A cycle ended with a profile, a process that went down and a failed worker
\* side by side.
C34_Witness ==
    /\ wf_pc = "returned"
    /\ \E p, q, r \in Targets :
          /\ results[p].what = "profile"
          /\ results[q].reason = "process went down during profiling"
          /\ results[r].reason = "exception" /\ results[r].kind = "CalledProcessError"


\* C35: per exec event the scheduler thread probes after 100, 200, 400 and
\* 800 ms, at most four times: a probe that finds the process worth profiling
\* or the probe at 800 ms ends the chain, any other probe schedules the next one
\* at twice the interval; and no probe runs once the cycle's spawn tracking
\* was stopped.
C35_ProbesBackOffAndStopWithTracking ==
    [][(rt_check # NoCheck /\ rt_check' = NoCheck) =>
          /\ rt_sched[rt_check] \in {BACKOFF_INIT, 2 * BACKOFF_INIT, 4 * BACKOFF_INIT, BACKOFF_MAX}
          /\ rt_sched'[rt_check] \in {0, 2 * rt_sched[rt_check]}
          /\ rt_sched[rt_check] = BACKOFF_MAX => rt_sched'[rt_check] = 0
          /\ rt_check \in rt_spawned_workers' \ rt_spawned_workers => rt_sched'[rt_check] = 0
          /\ rt_spawning]_vars

\* C36: in every interleaving of the snapshot thread, the exec callback and the
\* scheduler thread, no pid is handed to a worker twice in one cycle (so the
\* pids profiled as preexisting and as spawned are disjoint), and no worker is
\* submitted once _stop_profiling_spawning has run.
C36_NoPidProfiledTwiceNoLateWorker ==
    [][/\ ~rt_double_profiled'
       /\ rt_spawned_workers' \ rt_spawned_workers # {} => rt_spawning]_vars
=============================================================================
